---- MODULE Spec2Model ----
(***************************************************************************)
(* GridTrender derivatives engine: the cooperative scheduler               *)
(* (AbstractTrader), the order executor (OrderExecutor.submit) and the     *)
(* per-tick position state machine (DerivativeTrendTrader).                *)
(*                                                                         *)
(* SchedSpec  : run() / start_background() / stop() of one trader, with    *)
(*              the coroutine suspension points of run() as states.        *)
(* TraderSpec : initialize() and the ticks of one trader driven by a       *)
(*              single run(), with every await on the exchange a state.    *)
(* StopSpec   : one invocation of run() with the moments of the stop()     *)
(*              calls recorded.                                            *)
(* RiskSpec   : single calls of the risk manager's functions.              *)
(***************************************************************************)
EXTENDS Integers, Sequences, FiniteSets, TLC

\* ------------------------------------------------------------------ bounds
NumRuns == 2
MaxSteps == 2
\* largest max_retries an OrderExecutor is built with (the smallest is -1)
MaxRetriesBound == 2
\* amounts are fixed-point numbers with this many decimals
AmountDecimals == 1

\* ------------------------------------------------- program constants
LoopInterval == 60
\* OrderExecutor(max_retries=3)
DefaultMaxRetries == 3
\* DerivativeStrategyConfig; x.5 multipliers are kept as a fraction
AdxThreshold == 25
AtrStopMultiplierNum == 5
AtrStopMultiplierDen == 2
TrailingAtrMultiplier == 3
KeltnerMultiplier == 2
ContractMultiplier == 1
\* DerivativeRiskLimits, as fractions
MaxLeverage == 5
MaxPositionRatioNum == 3
MaxPositionRatioDen == 10
RiskPerTradeNum == 1
RiskPerTradeDen == 100
MinTrendStrength == 1
MinVolatilityRatioNum == 1
MinVolatilityRatioDen == 1000
MaxVolatilityRatioNum == 3
MaxVolatilityRatioDen == 100

VARIABLES
    \* AbstractTrader
    running,        \* self._running
    task,           \* self._task: 0 is None, else the run it wraps
    pc,             \* where each invocation of run() is suspended
    initCalls,      \* initialize() invocations made by each run()
    stepCalls,      \* step() invocations made by each run()
    sleeps,         \* asyncio.sleep() invocations made by each run()
    sleepFor,       \* argument of the sleep a run() is suspended in (0: none)
    shutdownCalls,  \* shutdown() invocations made by each run()
    stepOutcome,    \* how the last step() of each run() ended
    failStreak,     \* consecutive step() calls of a run() that raised
    stopRequested,  \* stop() has been called at least once
    stopSeen,       \* stop() was called while this run() was in step or sleep
    stopInInit,     \* stop() was called while this run() was in initialize()
    \* OrderExecutor
    max_retries,    \* self.max_retries
    sub,            \* the submit() in progress: its order, locals and outcome
    \* DerivativeTrendTrader
    tpc,            \* where the trader's coroutine is suspended
    market_info,    \* self.market_info
    position_state, \* self.position_state
    last_snapshot,  \* self.last_snapshot
    tick,           \* locals of the step() in progress, and what it did
    prevEnd,        \* position_state when the previous step() ended
    \* DerivativeRiskManager
    call            \* a call of one of its methods: arguments and result

schedVars == <<running, task, pc, initCalls, stepCalls, sleeps, sleepFor,
               shutdownCalls, stepOutcome, failStreak, stopRequested, stopSeen,
                   stopInInit>>

traderVars == <<max_retries, sub, tpc, market_info, position_state,
                last_snapshot, tick, prevEnd>>

riskVars == <<call>>

vars == <<schedVars, traderVars, riskVars>>

Runs == 1..NumRuns

\* AbstractTrader.__init__
SchedVarsInit ==
    /\ running = FALSE
    /\ task = 0
    /\ pc = [r \in Runs |-> "idle"]
    /\ initCalls = [r \in Runs |-> 0]
    /\ stepCalls = [r \in Runs |-> 0]
    /\ sleeps = [r \in Runs |-> 0]
    /\ sleepFor = [r \in Runs |-> 0]
    /\ shutdownCalls = [r \in Runs |-> 0]
    /\ stepOutcome = [r \in Runs |-> "none"]
    /\ failStreak = [r \in Runs |-> 0]
    /\ stopRequested = FALSE
    /\ stopSeen = [r \in Runs |-> FALSE]
    /\ stopInInit = [r \in Runs |-> FALSE]

\* ======================================================================
\* Values
\* ======================================================================

\* Optional[x]: None is the empty set, a value v is {v}
None == {}
Some(v) == {v}
Val(o) == CHOOSE v \in o : TRUE

\* Python's `o or d` for an optional number: None and 0 are both falsy
OrElse(o, d) == IF o = None \/ o = Some(0) THEN d ELSE Val(o)

Max(a, b) == IF a >= b THEN a ELSE b
Min(a, b) == IF a <= b THEN a ELSE b
Abs(a) == IF a < 0 THEN -a ELSE a

RECURSIVE Pow10(_)
Pow10(n) == IF n <= 0 THEN 1 ELSE 10 * Pow10(n - 1)

\* amounts and sizes are counted in units of 10^-AmountDecimals contract
Unit == Pow10(AmountDecimals)

\* a fraction num/den with den > 0, and its comparisons
Frac(n, d) == [num |-> n, den |-> d]
FracLess(a, b) == a.num * b.den < b.num * a.den
FracLeq(a, b) == a.num * b.den <= b.num * a.den

\* ======================================================================
\* IndicatorService.build_snapshot (indicator_service.py)
\* ======================================================================

\* The latest values of the indicator series computed from the two candle
\* series. atr is the last ATR of the execution series; atr_sig is that
\* series forward-filled at the last signal timestamp (the Keltner bands
\* use it). Prices are integers, ATR values even.
Closes == {100, 5000, 5200}
EmaFasts == {4800, 4900, 5000}
EmaSlows == {4900}
Adxs == {20, 25}
Atrs == {0, 50}
AtrSigs == {50}
\* the Donchian channel, <<high, low>>
Donchians == {<<5000, 5000>>, <<5300, 4700>>}

Series ==
    [empty : {FALSE}, close : Closes, ema_fast : EmaFasts, ema_slow : EmaSlows,
     adx : Adxs, atr : Atrs, atr_sig : AtrSigs, donchian : Donchians]

EmptySeries ==
    [empty |-> TRUE, close |-> 0, ema_fast |-> 0, ema_slow |-> 0, adx |-> 0,
     atr |-> 0, atr_sig |-> 0, donchian |-> <<0, 0>>]

\* a breakout under the Donchian low, in a down trend, below ema_slow
DownBreakSeries ==
    [empty |-> FALSE, close |-> 4700, ema_fast |-> 4800, ema_slow |-> 4900,
     adx |-> 25, atr |-> 50, atr_sig |-> 50, donchian |-> <<5300, 4700>>]

Feeds == Series \cup {EmptySeries, DownBreakSeries}

\* build_snapshot without the ATR validity test
build_snapshot_any_atr(f) ==
    IF f.empty THEN None
    ELSE Some([close |-> f.close,
               ema_fast |-> f.ema_fast,
               ema_slow |-> f.ema_slow,
               adx |-> f.adx,
               atr |-> f.atr,
               donchian_high |-> f.donchian[1],
               donchian_low |-> f.donchian[2],
               keltner_upper |-> f.ema_fast + KeltnerMultiplier * f.atr_sig,
               keltner_lower |-> f.ema_fast - KeltnerMultiplier * f.atr_sig,
               trend_strength |-> Frac(f.close - f.ema_slow, f.atr),
               volatility_ratio |->
                   IF f.close # 0 THEN Frac(f.atr, f.close) ELSE Frac(0, 1)])

\* None for an empty candle series or a non-positive ATR, else the snapshot
build_snapshot(f) ==
    IF f.empty THEN None
    ELSE IF f.atr <= 0 THEN None
    ELSE Some([close |-> f.close,
               ema_fast |-> f.ema_fast,
               ema_slow |-> f.ema_slow,
               adx |-> f.adx,
               atr |-> f.atr,
               donchian_high |-> f.donchian[1],
               donchian_low |-> f.donchian[2],
               keltner_upper |-> f.ema_fast + KeltnerMultiplier * f.atr_sig,
               keltner_lower |-> f.ema_fast - KeltnerMultiplier * f.atr_sig,
               trend_strength |-> Frac(f.close - f.ema_slow, f.atr),
               volatility_ratio |->
                   IF f.close # 0 THEN Frac(f.atr, f.close) ELSE Frac(0, 1)])

\* ======================================================================
\* DerivativeRiskManager (risk_manager.py)
\* ======================================================================

FlatPosition ==
    [size |-> 0, side |-> "None", entry_price |-> 0, stop_loss |-> None,
     take_profit |-> None, unrealized_pnl |-> 0]

\* compute_position_size without the leverage cap
compute_position_size_uncapped(equity, atr, price) ==
    IF atr <= 0 \/ price <= 0 \/ equity <= 0 THEN Frac(0, 1)
    ELSE IF equity * RiskPerTradeNum <= 0 THEN Frac(0, 1)
    ELSE Frac(equity * RiskPerTradeNum, RiskPerTradeDen * atr)

\* the size in contracts, as a fraction
compute_position_size(equity, atr, price) ==
    IF atr <= 0 \/ price <= 0 \/ equity <= 0 THEN Frac(0, 1)
    ELSE IF equity * RiskPerTradeNum <= 0 THEN Frac(0, 1)
    ELSE LET position_size == Frac(equity * RiskPerTradeNum, RiskPerTradeDen * atr)
             \* nominal_value > nominal_cap
             over == position_size.num * price * ContractMultiplier
                        > equity * MaxLeverage * position_size.den
             capped == IF over
                       THEN Frac(equity * MaxLeverage, price * ContractMultiplier)
                       ELSE position_size
         IN  IF capped.num < 0 THEN Frac(0, 1) ELSE capped

\* can_open with the trend-strength gate on the absolute value
can_open_absolute_strength(direction, equity, snapshot, current_position) ==
    IF direction = "FLAT" THEN FALSE
    ELSE IF FracLess(Frac(Abs(snapshot.trend_strength.num),
                          snapshot.trend_strength.den),
                     Frac(MinTrendStrength, 1)) THEN FALSE
    ELSE IF ~(/\ FracLeq(Frac(MinVolatilityRatioNum, MinVolatilityRatioDen),
                         snapshot.volatility_ratio)
              /\ FracLeq(snapshot.volatility_ratio,
                         Frac(MaxVolatilityRatioNum, MaxVolatilityRatioDen)))
         THEN FALSE
    ELSE IF current_position.size > 0 /\ current_position.side = direction THEN FALSE
    ELSE IF current_position.size * snapshot.close * ContractMultiplier
                * MaxPositionRatioDen >= equity * MaxPositionRatioNum * Unit
         THEN FALSE
    ELSE equity > 0

\* can_open admitting an existing notional equal to the exposure cap
can_open_cap_admitted(direction, equity, snapshot, current_position) ==
    IF direction = "FLAT" THEN FALSE
    ELSE IF FracLess(snapshot.trend_strength, Frac(MinTrendStrength, 1)) THEN FALSE
    ELSE IF ~(/\ FracLeq(Frac(MinVolatilityRatioNum, MinVolatilityRatioDen),
                         snapshot.volatility_ratio)
              /\ FracLeq(snapshot.volatility_ratio,
                         Frac(MaxVolatilityRatioNum, MaxVolatilityRatioDen)))
         THEN FALSE
    ELSE IF current_position.size > 0 /\ current_position.side = direction THEN FALSE
    ELSE IF current_position.size * snapshot.close * ContractMultiplier
                * MaxPositionRatioDen > equity * MaxPositionRatioNum * Unit
         THEN FALSE
    ELSE equity > 0

can_open(direction, equity, snapshot, current_position) ==
    IF direction = "FLAT" THEN FALSE
    ELSE IF FracLess(snapshot.trend_strength, Frac(MinTrendStrength, 1)) THEN FALSE
    ELSE IF ~(/\ FracLeq(Frac(MinVolatilityRatioNum, MinVolatilityRatioDen),
                         snapshot.volatility_ratio)
              /\ FracLeq(snapshot.volatility_ratio,
                         Frac(MaxVolatilityRatioNum, MaxVolatilityRatioDen)))
         THEN FALSE
    ELSE IF current_position.size > 0 /\ current_position.side = direction THEN FALSE
    \* existing_nominal >= equity * max_position_ratio, sizes being in units
    ELSE IF current_position.size * snapshot.close * ContractMultiplier
                * MaxPositionRatioDen >= equity * MaxPositionRatioNum * Unit
         THEN FALSE
    ELSE equity > 0

\* should_reduce_on_drawdown with the LONG test made against the upper band
should_reduce_on_drawdown_upper_only(current_price, position, snapshot) ==
    IF position.size <= 0 THEN FALSE
    ELSE IF position.side = "LONG" /\ current_price > snapshot.keltner_upper THEN TRUE
    ELSE IF position.side = "SHORT" /\ current_price > snapshot.keltner_upper THEN TRUE
    ELSE FALSE

should_reduce_on_drawdown(current_price, position, snapshot) ==
    IF position.size <= 0 THEN FALSE
    ELSE IF position.side = "LONG" /\ current_price < snapshot.keltner_lower THEN TRUE
    ELSE IF position.side = "SHORT" /\ current_price > snapshot.keltner_upper THEN TRUE
    ELSE FALSE

\* ======================================================================
\* DerivativeTrendTrader, the functions of step() (trend_trader.py)
\* ======================================================================

\* market(symbol)["precision"]["amount"]: None, or a number of decimals
Precisions == {None} \cup {Some(d) : d \in 0..(AmountDecimals - 1)}

\* _apply_precision rounding up to the next step instead of down
apply_precision_rounding_up(amount) ==
    IF ~market_info.loaded \/ market_info.precision = None
    THEN (amount.num * Unit) \div amount.den
    ELSE LET factor == Pow10(Val(market_info.precision))
         IN  ((amount.num * factor + amount.den - 1) \div amount.den)
                * (Unit \div factor)

\* _apply_precision of an amount given as a fraction of a contract, in
\* units: floor(amount * factor) / factor, or the amount itself when the
\* market has no precision (every amount of this model is then a whole
\* number of units)
apply_precision(amount) ==
    IF ~market_info.loaded \/ market_info.precision = None
    THEN (amount.num * Unit) \div amount.den
    ELSE LET factor == Pow10(Val(market_info.precision))
         IN  ((amount.num * factor) \div amount.den) * (Unit \div factor)

\* _determine_trend with adx equal to the threshold counted as no trend
determine_trend_threshold_excluded(snapshot) ==
    IF snapshot.adx <= AdxThreshold THEN "FLAT"
    ELSE IF snapshot.ema_fast > snapshot.ema_slow THEN "LONG"
    ELSE IF snapshot.ema_fast < snapshot.ema_slow THEN "SHORT"
    ELSE "FLAT"

determine_trend(snapshot) ==
    IF snapshot.adx < AdxThreshold THEN "FLAT"
    ELSE IF snapshot.ema_fast > snapshot.ema_slow THEN "LONG"
    ELSE IF snapshot.ema_fast < snapshot.ema_slow THEN "SHORT"
    ELSE "FLAT"

\* _should_open_trade with strict breakout tests
should_open_trade_strict(direction, snapshot) ==
    IF direction = "LONG" THEN snapshot.close > snapshot.donchian_high
    ELSE IF direction = "SHORT" THEN snapshot.close < snapshot.donchian_low
    ELSE FALSE

should_open_trade(direction, snapshot) ==
    IF direction = "LONG" THEN snapshot.close >= snapshot.donchian_high
    ELSE IF direction = "SHORT" THEN snapshot.close <= snapshot.donchian_low
    ELSE FALSE

\* _calculate_stop without the floor at 0 of a LONG's stop
calculate_stop_unfloored(direction, entry_price, atr) ==
    LET offset == (AtrStopMultiplierNum * atr) \div AtrStopMultiplierDen
    IN  IF direction = "LONG" THEN entry_price - offset
        ELSE entry_price + offset

calculate_stop(direction, entry_price, atr) ==
    LET offset == (AtrStopMultiplierNum * atr) \div AtrStopMultiplierDen
    IN  IF direction = "LONG" THEN Max(entry_price - offset, 0)
        ELSE entry_price + offset

\* new_stop for a SHORT: min(stop_loss or inf, close + offset)
trail_short(stop_loss, candidate) ==
    IF stop_loss = None \/ stop_loss = Some(0) THEN candidate
    ELSE Min(Val(stop_loss), candidate)

\* new_stop for a LONG: max(stop_loss or 0.0, close - offset)
trail_long(stop_loss, candidate) == Max(OrElse(stop_loss, 0), candidate)

\* the position after _maybe_trail_stop
maybe_trail_stop(ps, snapshot) ==
    IF ps.side = "None" \/ ps.size <= 0 THEN ps
    ELSE LET trail_offset == TrailingAtrMultiplier * snapshot.atr
             new_stop == IF ps.side = "LONG"
                         THEN trail_long(ps.stop_loss, snapshot.close - trail_offset)
                         ELSE trail_short(ps.stop_loss, snapshot.close + trail_offset)
         IN  IF ps.stop_loss # Some(new_stop)
             THEN [ps EXCEPT !.stop_loss = Some(new_stop)]
             ELSE ps

\* ------------------------------------------------------------ the side
\* a str is the sequence of its characters; "" is <<>>

\* the characters c for which c.lower() is the given letter of "long": over
\* the whole of Unicode these are the letter and its ASCII capital, and no
\* character lowers to a longer string that holds one of the four letters
lowers_to(letter) ==
    CASE letter = "l" -> {"l", "L"}
      [] letter = "o" -> {"o", "O"}
      [] letter = "n" -> {"n", "N"}
      [] letter = "g" -> {"g", "G"}

\* str(side_str).lower().startswith("long"): each of the first four
\* characters lowers to the letter of "long" at its place
lower_startswith_long(str) ==
    /\ Len(str) >= 4
    /\ \A i \in 1..4 : str[i] \in lowers_to(<<"l", "o", "n", "g">>[i])

\* what fetch_position() may return: None, or the fields of a position.
\* A number 0 stands for a key that is absent, None or 0 and a side <<>> for
\* one that is absent, None or ""; contractsIsNone tells the key "contracts"
\* present with the value None from the key absent (contracts is then 0).
PositionReplies ==
    { [present |-> FALSE, contracts |-> 0, contractsIsNone |-> FALSE,
       amount |-> 0, entryPrice |-> 0, markPrice |-> 0, side |-> <<>>,
       unrealizedPnl |-> 0, unrealizedProfit |-> 0],
      [present |-> TRUE, contracts |-> 0, contractsIsNone |-> FALSE,
       amount |-> 0, entryPrice |-> 0, markPrice |-> 5000,
       side |-> <<"l", "o", "n", "g">>,
       unrealizedPnl |-> 0, unrealizedProfit |-> 0],
      [present |-> TRUE, contracts |-> 2 * Unit, contractsIsNone |-> FALSE,
       amount |-> 0, entryPrice |-> 5000, markPrice |-> 5100,
       side |-> <<"l", "o", "n", "g">>,
       unrealizedPnl |-> 0, unrealizedProfit |-> 7],
      [present |-> TRUE, contracts |-> -2 * Unit, contractsIsNone |-> FALSE,
       amount |-> 0, entryPrice |-> 0, markPrice |-> 5100, side |-> <<>>,
       unrealizedPnl |-> 0, unrealizedProfit |-> 0],
      [present |-> TRUE, contracts |-> Unit \div 2, contractsIsNone |-> FALSE,
       amount |-> 0, entryPrice |-> 5000, markPrice |-> 0,
       side |-> <<"S", "h", "o", "r", "t">>,
       unrealizedPnl |-> 0, unrealizedProfit |-> 0],
      [present |-> TRUE, contracts |-> 0, contractsIsNone |-> FALSE,
       amount |-> (3 * Unit) \div 2, entryPrice |-> 5000, markPrice |-> 0,
       side |-> <<>>, unrealizedPnl |-> 0, unrealizedProfit |-> 0],
      [present |-> TRUE, contracts |-> Unit \div 2, contractsIsNone |-> FALSE,
       amount |-> 0, entryPrice |-> 0, markPrice |-> 5100,
       side |-> <<"L", "o", "N", "g", "s">>,
       unrealizedPnl |-> -3, unrealizedProfit |-> 9],
      [present |-> TRUE, contracts |-> 0, contractsIsNone |-> TRUE,
       amount |-> (3 * Unit) \div 2, entryPrice |-> 5000, markPrice |-> 0,
       side |-> <<>>, unrealizedPnl |-> 0, unrealizedProfit |-> 0] }

\* `a or b` on numbers
NumOr(a, b) == IF a # 0 THEN a ELSE b

\* abs(float(position.get("contracts") or position.get("amount") or 0.0))
reported_contracts(position) ==
    Abs(NumOr(position.contracts, NumOr(position.amount, 0)))

\* position.get("side") or ("long" if float(position.get("contracts", 0)) > 0
\* else "short")
reported_side_str(position) ==
    IF position.side # <<>> THEN position.side
    ELSE IF position.contracts > 0 THEN <<"l", "o", "n", "g">>
    ELSE <<"s", "h", "o", "r", "t">>

\* TrendDirection.LONG if str(side_str).lower().startswith("long")
reported_side(position) ==
    IF lower_startswith_long(reported_side_str(position))
    THEN "LONG" ELSE "SHORT"

\* _sync_position_state raises: with no side reported, float() is applied
\* to a "contracts" that is None (TypeError)
sync_position_raises(position) ==
    /\ position.present
    /\ reported_contracts(position) > 0
    /\ position.side = <<>>
    /\ position.contractsIsNone

\* _sync_position_state without its `contracts <= 0` return
sync_position_state_keeps_zero(ps, position) ==
    IF ~position.present THEN FlatPosition
    ELSE IF sync_position_raises(position) THEN ps
    ELSE [size |-> reported_contracts(position),
          side |-> reported_side(position),
          entry_price |-> NumOr(position.entryPrice,
                                NumOr(position.markPrice, 0)),
          stop_loss |-> ps.stop_loss,
          take_profit |-> ps.take_profit,
          unrealized_pnl |-> NumOr(position.unrealizedPnl,
                                   NumOr(position.unrealizedProfit, 0))]

\* _sync_position_state building the position without the local stop_loss
\* and take_profit
sync_position_state_drops_stop(ps, position) ==
    IF ~position.present THEN FlatPosition
    ELSE IF reported_contracts(position) <= 0 THEN FlatPosition
    ELSE IF sync_position_raises(position) THEN ps
    ELSE [size |-> reported_contracts(position),
          side |-> reported_side(position),
          entry_price |-> NumOr(position.entryPrice,
                                NumOr(position.markPrice, 0)),
          stop_loss |-> None,
          take_profit |-> None,
          unrealized_pnl |-> NumOr(position.unrealizedPnl,
                                   NumOr(position.unrealizedProfit, 0))]

\* _sync_position_state: the position built from the exchange's reply,
\* keeping the local stop_loss and take_profit of the current position; the
\* position is left as it is when the function raises
sync_position_state(ps, position) ==
    IF ~position.present THEN FlatPosition
    ELSE IF reported_contracts(position) <= 0 THEN FlatPosition
    ELSE IF sync_position_raises(position) THEN ps
    ELSE [size |-> reported_contracts(position),
          side |-> reported_side(position),
          entry_price |-> NumOr(position.entryPrice,
                                NumOr(position.markPrice, 0)),
          stop_loss |-> ps.stop_loss,
          take_profit |-> ps.take_profit,
          unrealized_pnl |-> NumOr(position.unrealizedPnl,
                                   NumOr(position.unrealizedProfit, 0))]

\* ---------------------------------------------------------------- orders

\* the OrderRequest _close_position submits, None when it returns early
close_order(ps) ==
    IF ps.side = "None" \/ ps.size <= 0 THEN None
    ELSE LET amount == apply_precision(Frac(ps.size, Unit))
         IN  IF amount <= 0 THEN None
             ELSE Some([side |-> IF ps.side = "LONG" THEN "sell" ELSE "buy",
                        amount |-> amount,
                        order_type |-> "market",
                        reduce_only |-> TRUE])

\* the OrderRequest _open_position submits, None when the amount is <= 0
open_order(direction, snapshot, equity) ==
    LET position_size == compute_position_size(equity, snapshot.atr, snapshot.close)
        amount == apply_precision(position_size)
    IN  IF amount <= 0 THEN None
        ELSE Some([side |-> IF direction = "LONG" THEN "buy" ELSE "sell",
                   amount |-> amount,
                   order_type |-> "market",
                   reduce_only |-> FALSE])

\* create_order responses: None, {} or an order with or without "average"
\* (a fill close to the market, and one far below it)
RespNone == [kind |-> "None", filled |-> FALSE, average |-> None]
EmptyDict == [kind |-> "dict", filled |-> FALSE, average |-> None]
Responses ==
    { RespNone, EmptyDict,
      [kind |-> "dict", filled |-> TRUE, average |-> None],
      [kind |-> "dict", filled |-> TRUE, average |-> Some(5010)],
      [kind |-> "dict", filled |-> TRUE, average |-> Some(100)] }

\* `response or {}`
response_or_empty(response) ==
    IF response.kind = "None" \/ ~response.filled THEN EmptyDict ELSE response

\* the PositionState _open_position stores after a successful submit
opened_position(order, direction, snapshot, response) ==
    LET entry_price == OrElse(response.average, snapshot.close)
    IN  [size |-> order.amount,
         side |-> direction,
         entry_price |-> entry_price,
         stop_loss |-> Some(calculate_stop(direction, entry_price, snapshot.atr)),
         take_profit |-> None,
         unrealized_pnl |-> 0]

\* ------------------------------------------------- the branches of step()
\* A plan is what step() does up to its next suspension: it returns, or it
\* calls submit() with an order. ev lists what the tick has evaluated.
Returned(ps, ev) ==
    [next |-> "return", ps |-> ps, order |-> None, reason |-> "", events |-> ev]
\* a submit whose opening order is recorded in the position before it is sent
SubmittingRecorded(ps, order, reason, ev) ==
    [next |-> "submit",
     ps |-> IF reason = "open"
            THEN [ps EXCEPT !.size = order.amount,
                            !.side = IF order.side = "buy" THEN "LONG" ELSE "SHORT"]
            ELSE ps,
     order |-> Some(order), reason |-> reason,
     events |-> Append(ev, reason)]

Submitting(ps, order, reason, ev) ==
    [next |-> "submit", ps |-> ps, order |-> Some(order), reason |-> reason,
     events |-> Append(ev, reason)]

\* _close_position resetting the position when it skips the order
close_position_resets_on_skip(ps, reason, ev) ==
    IF close_order(ps) = None THEN Returned(FlatPosition, ev)
    ELSE Submitting(ps, Val(close_order(ps)), reason, ev)

\* _close_position(reason) up to its submit; a close that returns early
\* leaves the position as it is
close_position(ps, reason, ev) ==
    IF close_order(ps) = None THEN Returned(ps, ev)
    ELSE Submitting(ps, Val(close_order(ps)), reason, ev)

\* _maybe_flatten_on_trend_flip
maybe_flatten_on_trend_flip(ps, snapshot, ev) ==
    IF ps.side = "None" THEN Returned(ps, ev)
    ELSE IF ps.side = "LONG" /\ snapshot.close < snapshot.ema_slow
         THEN close_position(ps, "trend_exit", ev)
    ELSE IF ps.side = "SHORT" /\ snapshot.close > snapshot.ema_slow
         THEN close_position(ps, "trend_exit", ev)
    ELSE Returned(ps, ev)

\* step() with the position-held block falling through to the entry logic
step_after_flip_no_return(ps, snapshot, direction, equity, ev) ==
    LET ps1 == IF ps.side # "None" THEN maybe_trail_stop(ps, snapshot) ELSE ps
        ev1 == Append(ev, "should_open") IN
    IF ~should_open_trade(direction, snapshot) THEN Returned(ps1, ev1)
    ELSE IF ~can_open(direction, equity, snapshot, ps1)
         THEN Returned(ps1, Append(ev1, "can_open"))
    ELSE IF open_order(direction, snapshot, equity) = None
         THEN Returned(ps1, Append(ev1, "can_open"))
    ELSE Submitting(ps1, Val(open_order(direction, snapshot, equity)), "open",
                    Append(ev1, "can_open"))

\* step() closing a held position whose stop_loss the close has crossed
step_after_flip_enforcing_stop(ps, snapshot, direction, equity, ev) ==
    IF ps.side # "None"
    THEN LET ps1 == maybe_trail_stop(ps, snapshot)
             ev1 == ev \o <<"trail", "reduce_check">>
             crossed == /\ ps1.stop_loss # None
                        /\ IF ps1.side = "LONG"
                           THEN snapshot.close < Val(ps1.stop_loss)
                           ELSE snapshot.close > Val(ps1.stop_loss)
         IN  IF crossed THEN close_position(ps1, "stop_loss", ev1)
             ELSE IF should_reduce_on_drawdown(snapshot.close, ps1, snapshot)
             THEN close_position(ps1, "keltner_break", ev1)
             ELSE Returned(ps1, ev1)
    ELSE LET ev1 == Append(ev, "should_open") IN
         IF ~should_open_trade(direction, snapshot) THEN Returned(ps, ev1)
         ELSE IF ~can_open(direction, equity, snapshot, ps)
              THEN Returned(ps, Append(ev1, "can_open"))
         ELSE IF open_order(direction, snapshot, equity) = None
              THEN Returned(ps, Append(ev1, "can_open"))
         ELSE Submitting(ps, Val(open_order(direction, snapshot, equity)), "open",
                         Append(ev1, "can_open"))

\* step() from the test of a held position to its end
step_after_flip(ps, snapshot, direction, equity, ev) ==
    IF ps.side # "None"
    THEN LET ps1 == maybe_trail_stop(ps, snapshot)
             ev1 == ev \o <<"trail", "reduce_check">>
         IN  IF should_reduce_on_drawdown(snapshot.close, ps1, snapshot)
             THEN close_position(ps1, "keltner_break", ev1)
             ELSE Returned(ps1, ev1)
    ELSE LET ev1 == Append(ev, "should_open") IN
         IF ~should_open_trade(direction, snapshot) THEN Returned(ps, ev1)
         ELSE IF ~can_open(direction, equity, snapshot, ps)
              THEN Returned(ps, Append(ev1, "can_open"))
         ELSE IF open_order(direction, snapshot, equity) = None
              THEN Returned(ps, Append(ev1, "can_open"))
         ELSE Submitting(ps, Val(open_order(direction, snapshot, equity)), "open",
                         Append(ev1, "can_open"))

\* step() with the entry logic evaluated before the flip close
step_from_trend_open_first(ps, snapshot, direction, equity, ev) ==
    IF direction = "FLAT" THEN maybe_flatten_on_trend_flip(ps, snapshot, ev)
    ELSE step_after_flip(FlatPosition, snapshot, direction, equity, ev)

\* step() from the trend determination to its next suspension
step_from_trend(ps, snapshot, direction, equity, ev) ==
    IF direction = "FLAT" THEN maybe_flatten_on_trend_flip(ps, snapshot, ev)
    ELSE IF ps.side # "None" /\ ps.side # direction
         THEN LET flip == close_position(ps, "trend_flip", ev)
              IN  IF flip.next = "submit" THEN flip
                  ELSE step_after_flip(ps, snapshot, direction, equity, ev)
    ELSE step_after_flip(ps, snapshot, direction, equity, ev)

\* step() from the return of a successful submit() to its next suspension
step_after_submit(ps, order, reason, response, snapshot, direction, equity, ev) ==
    IF reason = "open"
    THEN Returned(opened_position(order, direction, snapshot, response),
                  Append(ev, "opened"))
    ELSE IF reason = "trend_flip"
         THEN step_after_flip(FlatPosition, snapshot, direction, equity,
                              Append(ev, "closed"))
    ELSE Returned(FlatPosition, Append(ev, "closed"))

\* ======================================================================
\* The trader as a process: initialize(), then one step() after another
\* ======================================================================

IdleSub ==
    [order |-> None, reason |-> "", attempt |-> 0, last_error |-> 0,
     calls |-> 0, oks |-> 0, accepted |-> 0, outcome |-> "none",
     response |-> RespNone, result |-> RespNone, error |-> 0]

NewSub(order, reason) ==
    [IdleSub EXCEPT !.order = order, !.reason = reason, !.outcome = "pending"]

\* fetch_position() returning None
NoPosition ==
    [present |-> FALSE, contracts |-> 0, contractsIsNone |-> FALSE,
     amount |-> 0, entryPrice |-> 0, markPrice |-> 0, side |-> <<>>,
     unrealizedPnl |-> 0, unrealizedProfit |-> 0]

\* what a tick has seen and done so far; reply is the last answer of
\* fetch_position()
IdleTick ==
    [direction |-> "FLAT", equity |-> 0, synced |-> FALSE, syncSide |-> "None",
     reply |-> NoPosition, events |-> <<>>, orders |-> <<>>, outcome |-> "none"]

\* what is remembered of the position a step() ended with
EndOf(ps) == [side |-> ps.side, stop_loss |-> ps.stop_loss]

TraderConstructed(mr) ==
    /\ max_retries = mr
    /\ sub = IdleSub
    /\ tpc = "new"
    /\ market_info = [loaded |-> FALSE, precision |-> None]
    /\ position_state = FlatPosition
    /\ last_snapshot = None
    /\ tick = IdleTick
    /\ prevEnd = EndOf(FlatPosition)

RetryChoices == (-1)..MaxRetriesBound

\* no method of the risk manager has been called
NoCall == [op |-> "none"]

TraderInit ==
    /\ SchedVarsInit
    /\ \E mr \in RetryChoices : TraderConstructed(mr)
    /\ call = NoCall

\* initialize(): load_markets and ensure_contract_setup return and
\* market_info is assigned; initialize() is then suspended in the fetch of
\* its resync
InitializeMarket(precision) ==
    /\ tpc = "new"
    /\ market_info' = [loaded |-> TRUE, precision |-> precision]
    /\ tpc' = "initsync"
    /\ UNCHANGED <<max_retries, sub, position_state, last_snapshot, tick,
                   prevEnd>>
    /\ UNCHANGED <<schedVars, riskVars>>

\* initialize(): the resync of the position that ends it; a reply that makes
\* the resync raise makes initialize() raise with the position as it was
InitializeSync(position) ==
    /\ tpc = "initsync"
    /\ position_state' = sync_position_state(position_state, position)
    /\ prevEnd' = EndOf(position_state')
    /\ IF sync_position_raises(position)
       THEN tpc' = "failed" /\ UNCHANGED tick
       ELSE tpc' = "idle" /\ tick' = [tick EXCEPT !.reply = position]
    /\ UNCHANGED <<max_retries, sub, market_info, last_snapshot>>
    /\ UNCHANGED <<schedVars, riskVars>>

\* initialize(): load_markets, ensure_contract_setup or market() raises
\* before market_info is assigned, or fetch_position raises after it;
\* initialize() raises and nothing else is assigned
InitializeRaises ==
    /\ tpc \in {"new", "initsync"}
    /\ tpc' = "failed"
    /\ UNCHANGED <<max_retries, sub, market_info, position_state,
                   last_snapshot, tick, prevEnd>>
    /\ UNCHANGED <<schedVars, riskVars>>

\* step(): fetch the candles and build the snapshot; no snapshot ends the tick
StepSnapshot(feed) ==
    /\ tpc = "idle"
    /\ LET snapshot == build_snapshot(feed) IN
       IF snapshot = None
       THEN /\ tick' = [tick EXCEPT !.outcome = "returned"]
            /\ tpc' = "ended"
            /\ UNCHANGED last_snapshot
       ELSE /\ tpc' = "sync"
            /\ last_snapshot' = snapshot
            /\ UNCHANGED tick
    /\ UNCHANGED <<max_retries, sub, market_info, position_state, prevEnd>>
    /\ UNCHANGED <<schedVars, riskVars>>

\* step(): the resync of the position from the exchange
StepSync(position) ==
    /\ tpc = "sync"
    /\ position_state' = sync_position_state(position_state, position)
    /\ IF sync_position_raises(position)
       THEN /\ tick' = [tick EXCEPT !.outcome = "raised"]
            /\ tpc' = "ended"
       ELSE /\ tick' = [tick EXCEPT !.synced = TRUE,
                                    !.syncSide = position_state'.side,
                                    !.reply = position,
                                    !.events = Append(@, "sync")]
            /\ tpc' = "metrics"
    /\ UNCHANGED <<max_retries, sub, market_info, last_snapshot, prevEnd>>
    /\ UNCHANGED <<schedVars, riskVars>>

\* what a plan leaves behind: the position, and either the end of the tick
\* or a submit() suspended before its first create_order
ApplyPlan(plan, direction, equity) ==
    /\ position_state' = plan.ps
    /\ IF plan.next = "submit"
       THEN /\ tpc' = "submit"
            /\ sub' = NewSub(plan.order, plan.reason)
            /\ tick' = [tick EXCEPT
                   !.direction = direction,
                   !.equity = equity,
                   !.events = plan.events,
                   !.orders = Append(@, [order |-> Val(plan.order),
                                         reason |-> plan.reason,
                                         local |-> plan.ps])]
       ELSE /\ tpc' = "ended"
            /\ UNCHANGED sub
            /\ tick' = [tick EXCEPT !.direction = direction,
                                    !.equity = equity,
                                    !.events = plan.events,
                                    !.outcome = "returned"]

\* what fetch_account_metrics() may report as equity
EquityReports == {-50, 2500, 10000}

\* step(): the equity, the trend, and the branch taken up to the first order
StepDecide(reported) ==
    /\ tpc = "metrics"
    /\ LET equity == Max(reported, 0)
           snapshot == Val(last_snapshot)
           direction == determine_trend(snapshot)
       IN  ApplyPlan(step_from_trend(position_state, snapshot, direction, equity,
                                     Append(tick.events, "trend")),
                     direction, equity)
    /\ UNCHANGED <<max_retries, market_info, last_snapshot, prevEnd>>
    /\ UNCHANGED <<schedVars, riskVars>>

\* fetch_position() or fetch_account_metrics() raises: so does step()
FetchRaises ==
    /\ tpc \in {"idle", "sync", "metrics"}
    /\ tick' = [tick EXCEPT !.outcome = "raised"]
    /\ tpc' = "ended"
    /\ UNCHANGED <<max_retries, sub, market_info, position_state, last_snapshot,
                   prevEnd>>
    /\ UNCHANGED <<schedVars, riskVars>>

\* ---------------------------------------------------- OrderExecutor.submit

\* the retry loop's test, off by one
retry_loop_test_inclusive == sub.attempt <= max_retries

\* while attempt < self.max_retries
retry_loop_test == sub.attempt < max_retries

\* a successful create_order whose return is not taken: the loop goes on
SubmitAttemptOkNoReturn(response) ==
    /\ tpc = "submit"
    /\ retry_loop_test
    /\ sub' = [sub EXCEPT !.calls = @ + 1, !.oks = @ + 1, !.accepted = @ + 1,
                          !.attempt = @ + 1, !.response = response]
    /\ UNCHANGED <<tpc, tick, position_state>>
    /\ UNCHANGED <<max_retries, market_info, last_snapshot, prevEnd>>
    /\ UNCHANGED <<schedVars, riskVars>>

\* an attempt succeeds: submit() returns `response or {}` at once and the
\* caller (_open_position or _close_position, then step) goes on
SubmitAttemptOk(response) ==
    /\ tpc = "submit"
    /\ retry_loop_test
    /\ LET result == response_or_empty(response)
           plan == step_after_submit(position_state, Val(sub.order), sub.reason,
                                     result, Val(last_snapshot), tick.direction,
                                     tick.equity, tick.events)
       IN  /\ position_state' = plan.ps
           /\ IF plan.next = "submit"
              THEN /\ tpc' = "submit"
                   /\ sub' = NewSub(plan.order, plan.reason)
                   /\ tick' = [tick EXCEPT
                          !.events = plan.events,
                          !.orders = Append(@, [order |-> Val(plan.order),
                                                reason |-> plan.reason,
                                                local |-> plan.ps])]
              ELSE /\ tpc' = "ended"
                   /\ sub' = [sub EXCEPT !.calls = @ + 1, !.oks = @ + 1,
                                         !.accepted = @ + 1,
                                         !.response = response,
                                         !.result = result,
                                         !.outcome = "returned"]
                   /\ tick' = [tick EXCEPT !.events = plan.events,
                                           !.outcome = "returned"]
    /\ UNCHANGED <<max_retries, market_info, last_snapshot, prevEnd>>
    /\ UNCHANGED <<schedVars, riskVars>>

\* an attempt raises, before or after the exchange took the order: the
\* error is kept (it is numbered by the call that raised it) and counted
SubmitAttemptFails(taken) ==
    /\ tpc = "submit"
    /\ retry_loop_test
    /\ sub' = [sub EXCEPT !.calls = @ + 1,
                          !.attempt = @ + 1,
                          !.last_error = sub.calls + 1,
                          !.accepted = IF taken THEN @ + 1 ELSE @]
    /\ UNCHANGED <<tpc, tick, position_state>>
    /\ UNCHANGED <<max_retries, market_info, last_snapshot, prevEnd>>
    /\ UNCHANGED <<schedVars, riskVars>>

\* the end of the loop raising whether or not an attempt has failed
SubmitExhaustedAlwaysRaises ==
    /\ tpc = "submit"
    /\ ~retry_loop_test
    /\ sub' = [sub EXCEPT !.outcome = "raised", !.error = sub.last_error]
    /\ tick' = [tick EXCEPT !.outcome = "raised"]
    /\ tpc' = "ended"
    /\ UNCHANGED position_state
    /\ UNCHANGED <<max_retries, market_info, last_snapshot, prevEnd>>
    /\ UNCHANGED <<schedVars, riskVars>>

\* the loop is over: raise the last error, or return {} if there is none
SubmitExhausted ==
    /\ tpc = "submit"
    /\ ~retry_loop_test
    /\ IF sub.last_error # 0
       THEN /\ sub' = [sub EXCEPT !.outcome = "raised", !.error = sub.last_error]
            /\ tick' = [tick EXCEPT !.outcome = "raised"]
            /\ tpc' = "ended"
            /\ UNCHANGED position_state
       ELSE LET plan == step_after_submit(position_state, Val(sub.order),
                                          sub.reason, EmptyDict,
                                          Val(last_snapshot), tick.direction,
                                          tick.equity, tick.events)
            IN  /\ position_state' = plan.ps
                /\ IF plan.next = "submit"
                   THEN /\ tpc' = "submit"
                        /\ sub' = NewSub(plan.order, plan.reason)
                        /\ tick' = [tick EXCEPT
                               !.events = plan.events,
                               !.orders = Append(@, [order |-> Val(plan.order),
                                                     reason |-> plan.reason,
                                                     local |-> plan.ps])]
                   ELSE /\ tpc' = "ended"
                        /\ sub' = [sub EXCEPT !.result = EmptyDict,
                                              !.outcome = "returned"]
                        /\ tick' = [tick EXCEPT !.events = plan.events,
                                                !.outcome = "returned"]
    /\ UNCHANGED <<max_retries, market_info, last_snapshot, prevEnd>>
    /\ UNCHANGED <<schedVars, riskVars>>

\* run(): the step() has returned, or raised and been logged; the sleep
\* passes and the loop is about to call step() again
Sleep ==
    /\ tpc = "ended"
    /\ tpc' = "idle"
    /\ tick' = IdleTick
    /\ sub' = IdleSub
    /\ prevEnd' = EndOf(position_state)
    /\ UNCHANGED <<max_retries, market_info, position_state, last_snapshot>>
    /\ UNCHANGED <<schedVars, riskVars>>

TraderNext ==
    \/ \E precision \in Precisions : InitializeMarket(precision)
    \/ \E position \in PositionReplies : InitializeSync(position)
    \/ InitializeRaises
    \/ \E feed \in Feeds : StepSnapshot(feed)
    \/ \E position \in PositionReplies : StepSync(position)
    \/ \E reported \in EquityReports : StepDecide(reported)
    \/ FetchRaises
    \/ \E response \in Responses : SubmitAttemptOk(response)
    \/ \E taken \in BOOLEAN : SubmitAttemptFails(taken)
    \/ SubmitExhausted
    \/ Sleep

TraderSpec == TraderInit /\ [][TraderNext]_vars

\* ======================================================================
\* AbstractTrader (abstract_trader.py)
\* ======================================================================

\* asyncio.Task.done(): the coroutine has returned or raised
TaskDone(r) == pc[r] \in {"done", "returned", "failed", "cancelled"}

\* run(), from its entry to its first suspension: the guard on _running,
\* then the call of initialize()
RunEnter(r) ==
    IF running
    THEN /\ pc' = [pc EXCEPT ![r] = "returned"]
         /\ UNCHANGED initCalls
    ELSE /\ pc' = [pc EXCEPT ![r] = "init"]
         /\ initCalls' = [initCalls EXCEPT ![r] = @ + 1]

\* a caller awaits run() directly
RunCall(r) ==
    /\ pc[r] = "idle"
    /\ RunEnter(r)
    /\ UNCHANGED <<traderVars, riskVars>>
    /\ UNCHANGED <<running, task, stepCalls, sleeps, sleepFor, shutdownCalls,
                   stepOutcome, failStreak, stopRequested, stopSeen,
                   stopInInit>>

\* start_background(): returns at once if a task exists that is not done,
\* else wraps run() in a new task (which starts running later)
StartBackground(r) ==
    /\ pc[r] = "idle"
    /\ IF task # 0 /\ ~TaskDone(task)
       THEN /\ pc' = [pc EXCEPT ![r] = "skipped"]
            /\ UNCHANGED task
       ELSE /\ pc' = [pc EXCEPT ![r] = "created"]
            /\ task' = r
    /\ UNCHANGED <<traderVars, riskVars>>
    /\ UNCHANGED <<running, initCalls, stepCalls, sleeps, sleepFor,
                   shutdownCalls, stepOutcome, failStreak, stopRequested,
                   stopSeen,
                   stopInInit>>

\* the event loop starts the task made by start_background()
TaskStart(r) ==
    /\ pc[r] = "created"
    /\ RunEnter(r)
    /\ UNCHANGED <<traderVars, riskVars>>
    /\ UNCHANGED <<running, task, stepCalls, sleeps, sleepFor, shutdownCalls,
                   stepOutcome, failStreak, stopRequested, stopSeen,
                   stopInInit>>

\* initialize() returning into a run() that honours a stop() made meanwhile
InitReturnHonoursStop(r) ==
    /\ pc[r] = "init"
    /\ IF stopRequested
       THEN /\ pc' = [pc EXCEPT ![r] = "shutdown"]
            /\ shutdownCalls' = [shutdownCalls EXCEPT ![r] = @ + 1]
            /\ UNCHANGED <<running, stepCalls, stepOutcome>>
       ELSE /\ running' = TRUE
            /\ pc' = [pc EXCEPT ![r] = "step"]
            /\ stepCalls' = [stepCalls EXCEPT ![r] = @ + 1]
            /\ stepOutcome' = [stepOutcome EXCEPT ![r] = "none"]
            /\ UNCHANGED shutdownCalls
    /\ UNCHANGED <<traderVars, riskVars>>
    /\ UNCHANGED <<task, initCalls, sleeps, sleepFor, failStreak,
                   stopRequested, stopSeen, stopInInit>>

\* initialize() returns: _running = True, the loop test passes and the
\* first step() is called, all without suspending
InitReturn(r) ==
    /\ pc[r] = "init"
    /\ running' = TRUE
    /\ pc' = [pc EXCEPT ![r] = "step"]
    /\ stepCalls' = [stepCalls EXCEPT ![r] = @ + 1]
    /\ stepOutcome' = [stepOutcome EXCEPT ![r] = "none"]
    /\ UNCHANGED <<traderVars, riskVars>>
    /\ UNCHANGED <<task, initCalls, sleeps, sleepFor, shutdownCalls,
                   failStreak, stopRequested, stopSeen,
                   stopInInit>>

\* initialize() raises: run() has no handler around it
InitRaise(r) ==
    /\ pc[r] = "init"
    /\ pc' = [pc EXCEPT ![r] = "failed"]
    /\ UNCHANGED <<traderVars, riskVars>>
    /\ UNCHANGED <<running, task, initCalls, stepCalls, sleeps, sleepFor,
                   shutdownCalls, stepOutcome, failStreak, stopRequested,
                   stopSeen,
                   stopInInit>>

\* step() returns normally; run() goes to sleep for loop_interval
StepReturn(r) ==
    /\ pc[r] = "step"
    /\ pc' = [pc EXCEPT ![r] = "sleep"]
    /\ sleeps' = [sleeps EXCEPT ![r] = @ + 1]
    /\ sleepFor' = [sleepFor EXCEPT ![r] = LoopInterval]
    /\ stepOutcome' = [stepOutcome EXCEPT ![r] = "returned"]
    /\ failStreak' = [failStreak EXCEPT ![r] = 0]
    /\ UNCHANGED <<traderVars, riskVars>>
    /\ UNCHANGED <<running, task, initCalls, stepCalls, shutdownCalls,
                   stopRequested, stopSeen,
                   stopInInit>>

\* a step() that raised leaves the loop (what run() would do without its
\* except clause)
StepRaisePropagates(r) ==
    /\ pc[r] = "step"
    /\ pc' = [pc EXCEPT ![r] = "failed"]
    /\ stepOutcome' = [stepOutcome EXCEPT ![r] = "raised"]
    /\ failStreak' = [failStreak EXCEPT ![r] = @ + 1]
    /\ UNCHANGED <<traderVars, riskVars>>
    /\ UNCHANGED <<running, task, initCalls, stepCalls, sleeps, sleepFor,
                   shutdownCalls, stopRequested, stopSeen,
                   stopInInit>>

\* step() raises an Exception: caught and logged, then the same sleep
StepRaise(r) ==
    /\ pc[r] = "step"
    /\ pc' = [pc EXCEPT ![r] = "sleep"]
    /\ sleeps' = [sleeps EXCEPT ![r] = @ + 1]
    /\ sleepFor' = [sleepFor EXCEPT ![r] = LoopInterval]
    /\ stepOutcome' = [stepOutcome EXCEPT ![r] = "raised"]
    /\ failStreak' = [failStreak EXCEPT ![r] = @ + 1]
    /\ UNCHANGED <<traderVars, riskVars>>
    /\ UNCHANGED <<running, task, initCalls, stepCalls, shutdownCalls,
                   stopRequested, stopSeen,
                   stopInInit>>

\* a cancellation that runs shutdown() on its way out of the loop, as a
\* finally clause around the loop would
CancelledRunsShutdown(r) ==
    /\ pc[r] \in {"created", "init", "step", "sleep", "shutdown"}
    /\ pc' = [pc EXCEPT ![r] = "cancelled"]
    /\ sleepFor' = [sleepFor EXCEPT ![r] = 0]
    /\ shutdownCalls' = [shutdownCalls EXCEPT ![r] =
                            IF pc[r] \in {"step", "sleep"} THEN @ + 1 ELSE @]
    /\ UNCHANGED <<traderVars, riskVars>>
    /\ UNCHANGED <<running, task, initCalls, stepCalls, sleeps,
                   stepOutcome, failStreak, stopRequested, stopSeen,
                   stopInInit>>

\* the task is cancelled: before it has started (run() is never entered),
\* or while run() is suspended in initialize(), in step(), in the sleep or
\* in shutdown(); CancelledError is re-raised (step) or meets no handler
Cancelled(r) ==
    /\ pc[r] \in {"created", "init", "step", "sleep", "shutdown"}
    /\ pc' = [pc EXCEPT ![r] = "cancelled"]
    /\ sleepFor' = [sleepFor EXCEPT ![r] = 0]
    /\ UNCHANGED <<traderVars, riskVars>>
    /\ UNCHANGED <<running, task, initCalls, stepCalls, sleeps,
                   shutdownCalls, stepOutcome, failStreak, stopRequested,
                   stopSeen,
                   stopInInit>>

\* the loop test made when the sleep returns, with the polarity inverted
SleepReturnInverted(r) ==
    /\ pc[r] = "sleep"
    /\ sleepFor' = [sleepFor EXCEPT ![r] = 0]
    /\ stepOutcome' = [stepOutcome EXCEPT ![r] = "none"]
    /\ IF ~running
       THEN /\ stepCalls[r] < MaxSteps
            /\ pc' = [pc EXCEPT ![r] = "step"]
            /\ stepCalls' = [stepCalls EXCEPT ![r] = @ + 1]
            /\ UNCHANGED shutdownCalls
       ELSE /\ pc' = [pc EXCEPT ![r] = "shutdown"]
            /\ shutdownCalls' = [shutdownCalls EXCEPT ![r] = @ + 1]
            /\ UNCHANGED stepCalls
    /\ UNCHANGED <<traderVars, riskVars>>
    /\ UNCHANGED <<running, task, initCalls, sleeps, failStreak,
                   stopRequested, stopSeen,
                   stopInInit>>

\* the sleep returns: the loop consults _running, and either calls step()
\* again or leaves the loop and calls shutdown()
SleepReturn(r) ==
    /\ pc[r] = "sleep"
    /\ sleepFor' = [sleepFor EXCEPT ![r] = 0]
    /\ stepOutcome' = [stepOutcome EXCEPT ![r] = "none"]
    /\ IF running
       THEN /\ stepCalls[r] < MaxSteps
            /\ pc' = [pc EXCEPT ![r] = "step"]
            /\ stepCalls' = [stepCalls EXCEPT ![r] = @ + 1]
            /\ UNCHANGED shutdownCalls
       ELSE /\ pc' = [pc EXCEPT ![r] = "shutdown"]
            /\ shutdownCalls' = [shutdownCalls EXCEPT ![r] = @ + 1]
            /\ UNCHANGED stepCalls
    /\ UNCHANGED <<traderVars, riskVars>>
    /\ UNCHANGED <<running, task, initCalls, sleeps, failStreak,
                   stopRequested, stopSeen,
                   stopInInit>>

\* shutdown() returns (it swallows its own exceptions) and run() ends
ShutdownReturn(r) ==
    /\ pc[r] = "shutdown"
    /\ pc' = [pc EXCEPT ![r] = "done"]
    /\ UNCHANGED <<traderVars, riskVars>>
    /\ UNCHANGED <<running, task, initCalls, stepCalls, sleeps, sleepFor,
                   shutdownCalls, stepOutcome, failStreak, stopRequested,
                   stopSeen,
                   stopInInit>>

\* stop(): clears the flag, nothing else
Stop ==
    /\ running' = FALSE
    /\ stopRequested' = TRUE
    /\ stopSeen' = [r \in Runs |-> stopSeen[r] \/ pc[r] \in {"step", "sleep"}]
    /\ UNCHANGED stopInInit
    /\ UNCHANGED <<traderVars, riskVars>>
    /\ UNCHANGED <<task, pc, initCalls, stepCalls, sleeps, sleepFor,
                   shutdownCalls, stepOutcome, failStreak>>

SchedNext ==
    \/ \E r \in Runs : RunCall(r)
    \/ \E r \in Runs : StartBackground(r)
    \/ \E r \in Runs : TaskStart(r)
    \/ \E r \in Runs : InitReturn(r)
    \/ \E r \in Runs : InitRaise(r)
    \/ \E r \in Runs : StepReturn(r)
    \/ \E r \in Runs : StepRaise(r)
    \/ \E r \in Runs : Cancelled(r)
    \/ \E r \in Runs : SleepReturn(r)
    \/ \E r \in Runs : ShutdownReturn(r)
    \/ Stop

SchedInit ==
    /\ SchedVarsInit
    /\ TraderConstructed(DefaultMaxRetries)
    /\ call = NoCall

SchedSpec == SchedInit /\ [][SchedNext]_vars

\* ----------------------------------------------------------------------
\* One invocation of run(), with the moments of the stop() calls recorded
\* ----------------------------------------------------------------------

\* stop(), recorded also against the run() whose initialize() is in progress
StopWatched ==
    /\ running' = FALSE
    /\ stopRequested' = TRUE
    /\ stopSeen' = [r \in Runs |-> stopSeen[r] \/ pc[r] \in {"step", "sleep"}]
    /\ stopInInit' = [r \in Runs |-> stopInInit[r] \/ pc[r] = "init"]
    /\ UNCHANGED <<traderVars, riskVars>>
    /\ UNCHANGED <<task, pc, initCalls, stepCalls, sleeps, sleepFor,
                   shutdownCalls, stepOutcome, failStreak>>

\* the run() the caller awaits or starts in the background
TheRun == 1

StopNext ==
    \/ RunCall(TheRun)
    \/ StartBackground(TheRun)
    \/ TaskStart(TheRun)
    \/ InitReturn(TheRun)
    \/ InitRaise(TheRun)
    \/ StepReturn(TheRun)
    \/ StepRaise(TheRun)
    \/ Cancelled(TheRun)
    \/ SleepReturn(TheRun)
    \/ ShutdownReturn(TheRun)
    \/ StopWatched

StopSpec == SchedInit /\ [][StopNext]_vars

\* ======================================================================
\* Scheduler properties
\* ======================================================================

InLoop(r) == pc[r] \in {"step", "sleep"}
LoopLeft(r) ==
    \/ pc[r] \in {"shutdown", "done"}
    \/ pc[r] = "cancelled" /\ shutdownCalls[r] = 1

\* what holds of one run() at every moment of its execution
LifecycleOrder(r) ==
    /\ initCalls[r] <= 1
    /\ shutdownCalls[r] <= 1
    /\ (stepCalls[r] > 0 => initCalls[r] = 1)
    /\ (pc[r] = "step" => sleeps[r] = stepCalls[r] - 1 /\ sleepFor[r] = 0)
    /\ (pc[r] = "sleep" => sleeps[r] = stepCalls[r] /\ sleepFor[r] = LoopInterval)
    /\ (LoopLeft(r) => sleeps[r] = stepCalls[r] /\ stepCalls[r] >= 1)
    /\ (shutdownCalls[r] = 1 <=> LoopLeft(r))
    /\ (shutdownCalls[r] = 1 => stopRequested)

\* C1: in every run() ended by a stop() request, initialize is invoked
\* exactly once and before the first step, every step is followed by a sleep
\* of loop_interval, and shutdown is invoked exactly once, after the last
\* step and only after stop was requested.
C1_Lifecycle ==
    /\ [](\A r \in Runs : LifecycleOrder(r))
    /\ [][\A r \in Runs :
            /\ (stepCalls'[r] > stepCalls[r] =>
                    /\ initCalls[r] = 1
                    /\ pc[r] \in {"init", "sleep"}
                    /\ shutdownCalls[r] = 0)
            /\ (shutdownCalls[r] = 1 => stepCalls'[r] = stepCalls[r])
            /\ (shutdownCalls'[r] > shutdownCalls[r] =>
                    pc[r] = "sleep" /\ stopRequested)]_vars

\* a run() that was stopped has gone through the whole lifecycle
C1_Witness ==
    \E r \in Runs :
        /\ pc[r] = "done"
        /\ stepCalls[r] >= 2
        /\ shutdownCalls[r] = 1
        /\ stopRequested

\* C2: a step that raises is caught: run() goes on to the sleep of
\* loop_interval and, when the sleep ends with the flag still set (always so
\* if stop was never requested), calls step again; no failing tick leads to
\* shutdown or to the end of run(), however many ticks fail in a row.
C2_FailingTickContinues ==
    /\ [](\A r \in Runs :
            /\ (stepOutcome[r] = "raised" =>
                    /\ pc[r] \in {"sleep", "cancelled"}
                    /\ (pc[r] = "sleep" => sleepFor[r] = LoopInterval)
                    /\ shutdownCalls[r] = 0)
            /\ (InLoop(r) /\ ~stopRequested => running))
    /\ [][\A r \in Runs :
            (/\ pc[r] = "sleep"
             /\ stepOutcome[r] = "raised"
             /\ running
             /\ pc'[r] \notin {"sleep", "cancelled"})
            => (pc'[r] = "step" /\ stepCalls'[r] = stepCalls[r] + 1)]_vars

\* two ticks in a row have failed and run() is in its sleep, not shut down
C2_Witness ==
    \E r \in Runs :
        /\ failStreak[r] >= 2
        /\ pc[r] = "sleep"
        /\ shutdownCalls[r] = 0
        /\ ~stopRequested

\* C3: a stop requested while a step or a sleep is in progress does not
\* interrupt it, and once that step/sleep cycle has finished no new step
\* begins: the run() goes on to shutdown.
C3_StopEndsLoop ==
    [][\A r \in Runs :
        /\ (stopSeen[r] /\ pc[r] = "sleep" => pc'[r] # "step")
        /\ (stopSeen'[r] /\ ~stopSeen[r] => pc'[r] = pc[r])]_vars

\* C4: for one trader at most one step() is in progress at any time and
\* initialize runs once, whatever the interleaving of run(),
\* start_background() and stop(): a second run() never starts a second loop.
C4_OneLoop ==
    /\ Cardinality({r \in Runs : pc[r] = "step"}) <= 1
    /\ Cardinality({r \in Runs : initCalls[r] > 0}) <= 1

\* ======================================================================
\* Order executor properties
\* ======================================================================

SubmitOver == sub.outcome \in {"returned", "raised"}

\* the original statement of C5: whenever no attempt of a submit succeeds,
\* it makes exactly max_retries calls and raises the last error
C5_AsStated ==
    /\ sub.calls <= max_retries
    /\ (SubmitOver /\ sub.oks = 0 =>
            /\ sub.outcome = "raised"
            /\ sub.calls = max_retries
            /\ sub.error = sub.calls)

\* C5: with max_retries >= 1, a submit none of whose create_order attempts
\* succeeds makes exactly max_retries calls and then raises the error of the
\* last one to its caller, whose step fails; with max_retries = 0 no call is
\* made and nothing is raised. A submit never makes more than max_retries
\* calls.
C5_RetriesThenRaises ==
    /\ sub.calls <= Max(max_retries, 0)
    /\ (max_retries >= 1 /\ SubmitOver /\ sub.oks = 0 =>
            /\ sub.outcome = "raised"
            /\ sub.calls = max_retries
            /\ sub.error = sub.calls
            /\ tick.outcome = "raised")
    /\ (max_retries = 0 /\ SubmitOver => sub.outcome = "returned" /\ sub.calls = 0)

\* a submit has raised after two failed attempts
C5_Witness ==
    /\ sub.outcome = "raised"
    /\ max_retries = 2
    /\ sub.calls = 2
    /\ sub.error = 2

\* the original statement of C6: the response comes back unmodified
C6_AsStated ==
    /\ sub.oks <= 1
    /\ (sub.outcome = "returned" /\ sub.oks = 1 =>
            /\ sub.result = sub.response
            /\ sub.calls = sub.attempt + 1
            /\ sub.calls <= max_retries)

\* C6: when the k-th attempt (1 <= k <= max_retries) succeeds after k-1
\* failures, submit returns at once, making no further call, with that
\* attempt's response: unmodified when it is a non-empty dict, and an empty
\* dict when the collaborator returned None or nothing. One submit holds at
\* most one successful create_order call.
C6_ReturnsOnSuccess ==
    /\ sub.oks <= 1
    /\ (sub.outcome = "returned" /\ sub.oks = 1 =>
            /\ sub.result = (IF sub.response.kind = "dict" /\ sub.response.filled
                             THEN sub.response
                             ELSE [kind |-> "dict", filled |-> FALSE, average |-> None])
            /\ sub.calls = sub.attempt + 1
            /\ sub.calls <= max_retries)

\* the second attempt succeeded after one failure, with a fill price
C6_Witness ==
    /\ sub.outcome = "returned"
    /\ sub.oks = 1
    /\ sub.calls = 2
    /\ sub.attempt = 1
    /\ sub.result.average # None

\* ======================================================================
\* Position state machine properties
\* ======================================================================

\* C7: at every moment after construction (so after initialize, after each
\* resync, open and close, and after every step however it ends) the local
\* position has size >= 0, has no side exactly when its size is 0, and its
\* side is never FLAT.
C7_PositionInvariant ==
    /\ position_state.size >= 0
    /\ (position_state.side = "None" <=> position_state.size = 0)
    /\ position_state.side \in {"None", "LONG", "SHORT"}

\* a step has ended on a successful open after a resync
C7_Witness ==
    /\ tpc = "ended"
    /\ tick.synced
    /\ Len(tick.events) > 0
    /\ tick.events[Len(tick.events)] = "opened"
    /\ position_state.side = "SHORT"
    /\ position_state.size > 0

IsOpening(o) == ~o.order.reduce_only

OrderIndexes == 1..Len(tick.orders)

\* C8: an opening order is submitted only when the local position is flat,
\* a tick submits at most one, and when the tick's resync reported an open
\* position the opening order comes after that position's successful close.
C8_NoPyramiding ==
    /\ \A i \in OrderIndexes :
            IsOpening(tick.orders[i]) =>
                /\ tick.orders[i].local.side = "None"
                /\ tick.orders[i].local.size = 0
                /\ (tick.syncSide # "None" =>
                        \E j \in 1..Len(tick.events) : tick.events[j] = "closed")
    /\ Cardinality({i \in OrderIndexes : IsOpening(tick.orders[i])}) <= 1
    /\ (tpc = "submit" /\ ~Val(sub.order).reduce_only =>
            position_state.side = "None" /\ position_state.size = 0)

\* an opening order is in flight in a tick whose resync reported a position
C8_Witness ==
    /\ tpc = "submit"
    /\ ~Val(sub.order).reduce_only
    /\ tick.syncSide = "LONG"
    /\ Len(tick.orders) = 2

EventIndexes == 1..Len(tick.events)

\* the position a step ended with is the one the previous step ended with
SamePositionHeld(side) ==
    /\ tpc = "ended"
    /\ prevEnd.side = side
    /\ position_state.side = side
    /\ (tick.synced => tick.syncSide = side)
    /\ prevEnd.stop_loss # None
    /\ position_state.stop_loss # None

\* C10: while the same LONG position stays open its stop_loss never
\* decreases from one tick to the next, and the stop_loss of a SHORT
\* position that stays open never increases.
C10_TrailingMonotonic ==
    /\ (SamePositionHeld("LONG") =>
            Val(position_state.stop_loss) >= Val(prevEnd.stop_loss))
    /\ (SamePositionHeld("SHORT") =>
            Val(position_state.stop_loss) <= Val(prevEnd.stop_loss))

\* the half of C10 about LONG positions
C10_LongOnly ==
    SamePositionHeld("LONG") =>
        Val(position_state.stop_loss) >= Val(prevEnd.stop_loss)

\* ======================================================================
\* Exit and entry properties
\* ======================================================================

\* the tick has evaluated e
Evaluated(e) == \E i \in EventIndexes : tick.events[i] = e

\* the tick has submitted an order for this reason, on this side
Ordered(reason, side, reduce_only) ==
    \E i \in OrderIndexes :
        /\ tick.orders[i].reason = reason
        /\ tick.orders[i].order.side = side
        /\ tick.orders[i].order.reduce_only = reduce_only
        /\ tick.orders[i].order.order_type = "market"

\* the tick's resync found a LONG position and the close is under the
\* lower Keltner band, and the trend has been determined
LongUnderBand ==
    /\ tick.synced
    /\ tick.syncSide = "LONG"
    /\ Evaluated("trend")
    /\ Val(last_snapshot).close < Val(last_snapshot).keltner_lower

\* the original statement of C11: every such tick produces a keltner_break
\* close
C11_AsStated ==
    LongUnderBand /\ tpc \in {"submit", "ended"} =>
        Ordered("keltner_break", "sell", TRUE)

\* C11: when a tick finds an open LONG position (per the resync), the
\* close is below keltner_lower and the tick's direction is LONG,
\* should_reduce_on_drawdown is true and the step submits a reduce-only
\* sell with reason keltner_break, unless the position's size floors to 0
\* at the amount precision (then no order is sent and the position is
\* kept). When the direction is FLAT or SHORT no keltner_break order is
\* submitted: the position is handled by trend_exit or trend_flip.
C11_KeltnerBreak ==
    LongUnderBand =>
        /\ (tick.direction = "LONG" =>
                /\ Evaluated("reduce_check")
                /\ should_reduce_on_drawdown(
                        Val(last_snapshot).close,
                        [size |-> 1, side |-> tick.syncSide],
                        Val(last_snapshot))
                /\ \/ Ordered("keltner_break", "sell", TRUE)
                   \/ /\ tick.orders = <<>>
                      /\ position_state.side = "LONG"
                      /\ close_order(position_state) = None)
        /\ (tick.direction # "LONG" => ~Evaluated("keltner_break"))
        /\ (tick.direction = "FLAT" => ~Evaluated("reduce_check"))

\* a LONG position under the band was closed by a keltner_break order
C11_Witness ==
    /\ LongUnderBand
    /\ tick.direction = "LONG"
    /\ tpc = "ended"
    /\ tick.outcome = "returned"
    /\ Len(tick.orders) = 1
    /\ tick.orders[1].reason = "keltner_break"
    /\ position_state = FlatPosition
    /\ sub.calls >= 1

\* the tick's resync found no position, the trend has been determined as
\* direction with the breakout confirmed, and can_open admits the entry
FlatBreakout(direction) ==
    /\ tick.synced
    /\ tick.syncSide = "None"
    /\ Evaluated("trend")
    /\ tpc \in {"submit", "ended"}
    /\ LET snapshot == Val(last_snapshot) IN
        /\ snapshot.adx >= AdxThreshold
        /\ IF direction = "LONG"
           THEN /\ snapshot.ema_fast > snapshot.ema_slow
                /\ snapshot.close >= snapshot.donchian_high
           ELSE /\ snapshot.ema_fast < snapshot.ema_slow
                /\ snapshot.close <= snapshot.donchian_low
        /\ can_open(direction, tick.equity, snapshot, FlatPosition)

\* the original statement of C12: every such tick submits an opening order
C12_AsStated ==
    /\ (FlatBreakout("LONG") => Ordered("open", "buy", FALSE))
    /\ (FlatBreakout("SHORT") => Ordered("open", "sell", FALSE))

\* C12: in a tick with flat state, adx at or above adx_threshold,
\* ema_fast > ema_slow, close >= donchian_high (equality included) and
\* can_open true, the step submits one market order with reduce_only false
\* and side "buy", provided the computed size floored to the amount
\* precision is > 0; when it floors to 0 no order is submitted and the
\* position stays flat. Symmetrically with ema_fast < ema_slow and
\* close <= donchian_low the order has side "sell".
C12_BreakoutEntry ==
    \A direction \in {"LONG", "SHORT"} :
        FlatBreakout(direction) =>
            LET order == open_order(direction, Val(last_snapshot), tick.equity)
            IN  /\ tick.direction = direction
                /\ Evaluated("should_open")
                /\ (order # None =>
                        /\ Len(tick.orders) = 1
                        /\ tick.orders[1].order = Val(order)
                        /\ Ordered("open",
                                   IF direction = "LONG" THEN "buy" ELSE "sell",
                                   FALSE))
                /\ (order = None =>
                        tick.orders = <<>> /\ position_state = FlatPosition)

\* a LONG entry was submitted with the close exactly on the Donchian high
C12_Witness ==
    /\ FlatBreakout("LONG")
    /\ Val(last_snapshot).close = Val(last_snapshot).donchian_high
    /\ Ordered("open", "buy", FALSE)
    /\ tpc = "ended"
    /\ position_state.side = "LONG"

\* ======================================================================
\* Frame properties of a tick
\* ======================================================================

\* the step has ended without having resynced: build_snapshot gave None
AbortedTick ==
    tpc = "ended" /\ ~tick.synced /\ tick.outcome = "returned"

\* C13: build_snapshot yields no snapshot for an empty candle series and
\* for atr <= 0, so a snapshot never has atr <= 0; the tick then ends at
\* once with position_state and last_snapshot unchanged, without resync
\* and without any order, and the next tick starts as usual.
C13_NoSnapshotNoChange ==
    /\ [](/\ (last_snapshot # None => Val(last_snapshot).atr > 0)
          /\ (AbortedTick =>
                /\ tick.events = <<>>
                /\ tick.orders = <<>>
                /\ sub = IdleSub))
    /\ [][(tpc = "idle" /\ AbortedTick') =>
            /\ position_state' = position_state
            /\ last_snapshot' = last_snapshot
            /\ market_info' = market_info]_vars
    /\ [][(tpc = "idle" /\ tpc' = "sync") => last_snapshot' # None]_vars
    /\ [][AbortedTick => tpc' = "idle" /\ position_state' = position_state]_vars

\* a tick was aborted while a position was held and a snapshot remembered
C13_Witness ==
    /\ AbortedTick
    /\ position_state.side = "LONG"
    /\ position_state.stop_loss # None
    /\ last_snapshot # None

\* a resync is made by this step: in initialize(), or in step()
Resyncs ==
    \/ tpc = "initsync" /\ tpc' = "idle"
    \/ tpc = "sync" /\ tpc' = "metrics"

\* a resync, or the fetch before it, has raised
ResyncRaises ==
    \/ tpc = "initsync" /\ tpc' = "failed"
    \/ tpc = "sync" /\ tpc' = "ended"

\* the exchange's answer reports an open position
ReportsOpen(reply) ==
    reply.present /\ (reply.contracts # 0 \/ reply.amount # 0)

\* the original statement of C14: every resync keeps stop_loss and
\* take_profit
C14_AsStated ==
    [][Resyncs =>
        /\ position_state'.stop_loss = position_state.stop_loss
        /\ position_state'.take_profit = position_state.take_profit]_vars

\* C14: a resync that finds an open position (contracts, else amount, not
\* zero) sets size to the absolute reported quantity, side to LONG when
\* the reported side, in lower case, starts with "long", to SHORT for any
\* other reported side and to the sign of contracts when none is reported,
\* entry_price to the reported entry (else mark) price and unrealized_pnl
\* to the reported unrealizedPnl (else unrealizedProfit), and keeps the
\* local stop_loss and take_profit; a resync that finds no position resets
\* the whole PositionState, stop_loss and take_profit included; a resync
\* that raises leaves the PositionState as it was.
C14_ResyncFrame ==
    /\ [][ResyncRaises => position_state' = position_state]_vars
    /\ [][Resyncs =>
        LET reply == tick'.reply IN
        IF ReportsOpen(reply)
        THEN /\ position_state'.size =
                    Abs(IF reply.contracts # 0 THEN reply.contracts ELSE reply.amount)
             /\ position_state'.side =
                    (IF reply.side # <<>>
                     THEN IF /\ Len(reply.side) >= 4
                             /\ reply.side[1] \in {"l", "L"}
                             /\ reply.side[2] \in {"o", "O"}
                             /\ reply.side[3] \in {"n", "N"}
                             /\ reply.side[4] \in {"g", "G"}
                          THEN "LONG" ELSE "SHORT"
                     ELSE IF reply.contracts > 0 THEN "LONG" ELSE "SHORT")
             /\ position_state'.entry_price =
                    (IF reply.entryPrice # 0 THEN reply.entryPrice
                     ELSE reply.markPrice)
             /\ position_state'.unrealized_pnl =
                    (IF reply.unrealizedPnl # 0 THEN reply.unrealizedPnl
                     ELSE reply.unrealizedProfit)
             /\ position_state'.stop_loss = position_state.stop_loss
             /\ position_state'.take_profit = position_state.take_profit
        ELSE position_state' = FlatPosition]_vars

\* a resync has just replaced a LONG holding a stop by the reported SHORT
C14_Witness ==
    /\ tpc = "metrics"
    /\ prevEnd.side = "LONG"
    /\ prevEnd.stop_loss # None
    /\ ReportsOpen(tick.reply)
    /\ tick.reply.contracts < 0
    /\ position_state.side = "SHORT"
    /\ position_state.size = 2 * Unit
    /\ position_state.entry_price = 5100
    /\ position_state.stop_loss = prevEnd.stop_loss

\* ======================================================================
\* Failed orders
\* ======================================================================

\* the submit of the tick's last order has raised, for this kind of order
SubmitRaised(opening) ==
    /\ tpc = "ended"
    /\ sub.outcome = "raised"
    /\ (sub.reason = "open") = opening

\* C15: when an opening order fails after its retries, the error leaves
\* step() (the tick fails) and the local position is flat, with side None,
\* size 0 and no stop_loss, also when a trend_flip close succeeded earlier
\* in that tick.
C15_FailedOpenStaysFlat ==
    SubmitRaised(TRUE) =>
        /\ tick.outcome = "raised"
        /\ sub.calls = max_retries
        /\ position_state.side = "None"
        /\ position_state.size = 0
        /\ position_state.stop_loss = None
        /\ position_state = FlatPosition

\* an open has failed right after a successful trend_flip close
C15_Witness ==
    /\ SubmitRaised(TRUE)
    /\ Len(tick.orders) = 2
    /\ tick.orders[1].reason = "trend_flip"
    /\ Evaluated("closed")
    /\ prevEnd.stop_loss # None
    /\ tick.syncSide = "LONG"

\* the position the tick's last submit was called with
LocalAtSubmit == tick.orders[Len(tick.orders)].local

\* this step is the return of a successful submit of a closing order
CloseReturns ==
    /\ tpc = "submit"
    /\ Val(sub.order).reduce_only
    /\ tick'.outcome # "raised"
    /\ Len(tick'.events) > Len(tick.events)
    /\ tick'.events[Len(tick.events) + 1] = "closed"

\* C16: when a closing order fails after its retries the step raises and
\* the local position is the one the close was called with; when a tick
\* ends without any order (a close skipped because the size floors to 0
\* included) the position is still the resynced one; and an open local
\* position becomes flat only by the return of a successful closing submit
\* or by a resync.
C16_FailedCloseKeepsState ==
    /\ [](/\ (SubmitRaised(FALSE) =>
                /\ tick.outcome = "raised"
                /\ position_state = LocalAtSubmit
                /\ position_state.side # "None"
                /\ position_state.size > 0)
          /\ (tpc = "ended" /\ tick.synced /\ tick.orders = <<>>
                /\ tick.syncSide # "None" =>
                /\ position_state.side = tick.syncSide
                /\ position_state.size > 0))
    /\ [][(position_state.side # "None" /\ position_state'.side = "None") =>
            (Resyncs \/ CloseReturns)]_vars

\* a FLAT tick wanted to exit a position whose size floors to 0: no
\* order, position kept
C16_Witness ==
    /\ tpc = "ended"
    /\ tick.direction = "FLAT"
    /\ tick.syncSide = "LONG"
    /\ Val(last_snapshot).close < Val(last_snapshot).ema_slow
    /\ tick.orders = <<>>
    /\ close_order(position_state) = None
    /\ position_state.side = "LONG"

\* ======================================================================
\* The risk manager called on its own: one call, arguments drawn at Init
\* ======================================================================

SizeEquities == {-100, 0, 2500, 10000}
SizeAtrs == {-1, 0, 1, 50}
SizePrices == {-5, 0, 500, 1000, 5000}

\* the calls of compute_position_size(equity, atr, price) to be made
SizeCalls ==
    [op : {"compute_position_size"}, done : {FALSE}, equity : SizeEquities,
     atr : SizeAtrs, price : SizePrices, size : {Frac(0, 1)}]

OpenDirections == {"FLAT", "LONG", "SHORT"}
OpenEquities == {-100, 0, 10000}
\* trend_strength: just below, at and above min_trend_strength, and negative
OpenTrendStrengths == {Frac(49, 50), Frac(1, 1), Frac(2, 1), Frac(-2, 1)}
\* volatility_ratio: just outside and exactly on each bound
OpenVolatilityRatios ==
    {Frac(9, 10000), Frac(1, 1000), Frac(3, 100), Frac(31, 1000)}
\* current_position: flat, small, and with a notional of exactly
\* max_position_ratio * 10000 at a close of 5000
OpenPositions ==
    { FlatPosition,
      [FlatPosition EXCEPT !.size = Unit \div 2, !.side = "LONG"],
      [FlatPosition EXCEPT !.size = Unit \div 2, !.side = "SHORT"],
      [FlatPosition EXCEPT !.size = (3 * Unit) \div 5, !.side = "SHORT"] }

\* the calls of can_open(direction, equity, snapshot, current_position)
CanOpenCalls ==
    [op : {"can_open"}, done : {FALSE}, direction : OpenDirections,
     equity : OpenEquities, close : {5000},
     trend_strength : OpenTrendStrengths,
     volatility_ratio : OpenVolatilityRatios,
     current_position : OpenPositions, ok : {FALSE}]

RiskInit ==
    /\ SchedVarsInit
    /\ TraderConstructed(DefaultMaxRetries)
    /\ call \in SizeCalls \cup CanOpenCalls

\* the call of compute_position_size returns
ComputePositionSize ==
    /\ call.op = "compute_position_size"
    /\ ~call.done
    /\ call' = [call EXCEPT
                  !.done = TRUE,
                  !.size = compute_position_size(call.equity, call.atr, call.price)]
    /\ UNCHANGED <<schedVars, traderVars>>

\* the call of can_open returns
CanOpen ==
    /\ call.op = "can_open"
    /\ ~call.done
    /\ call' = [call EXCEPT
                  !.done = TRUE,
                  !.ok = can_open(call.direction, call.equity,
                                  [close |-> call.close,
                                   trend_strength |-> call.trend_strength,
                                   volatility_ratio |-> call.volatility_ratio],
                                  call.current_position)]
    /\ UNCHANGED <<schedVars, traderVars>>

RiskNext ==
    \/ ComputePositionSize
    \/ CanOpen

RiskSpec == RiskInit /\ [][RiskNext]_vars

\* ----------------------------------------------------------- properties

SizeReturned == call.op = "compute_position_size" /\ call.done

\* size * price * contract_multiplier <= equity * max_leverage
WithinLeverage(c) ==
    c.size.num * c.price * ContractMultiplier <= c.equity * MaxLeverage * c.size.den

\* what C17 says of the value returned for valid arguments
SizeAsSpecified(c) ==
    LET \* equity * risk_per_trade / atr exceeds the cap
        over == c.equity * RiskPerTradeNum * c.price * ContractMultiplier
                    > c.equity * MaxLeverage * RiskPerTradeDen * c.atr
    IN  IF over
        THEN c.size.num * c.price * ContractMultiplier
                = c.equity * MaxLeverage * c.size.den
        ELSE c.size.num * RiskPerTradeDen * c.atr
                = c.equity * RiskPerTradeNum * c.size.den

\* the original statement of C17: the notional bound holds for all
\* arguments
C17_AsStated ==
    SizeReturned => call.size.num >= 0 /\ WithinLeverage(call)

\* C17: compute_position_size returns 0 when any of equity, atr, price is
\* <= 0; otherwise equity*risk_per_trade/atr, unless that size's notional
\* exceeds equity*max_leverage, in which case the size whose notional
\* equals the cap. The result is never negative, and for equity >= 0 its
\* notional size*price*contract_multiplier is at most equity*max_leverage.
C17_PositionSize ==
    SizeReturned =>
        /\ call.size.den > 0
        /\ call.size.num >= 0
        /\ (call.equity <= 0 \/ call.atr <= 0 \/ call.price <= 0 =>
                call.size.num = 0)
        /\ (call.equity > 0 /\ call.atr > 0 /\ call.price > 0 =>
                SizeAsSpecified(call) /\ call.size.num > 0)
        /\ (call.equity >= 0 => WithinLeverage(call))
        /\ (call.equity = 10000 /\ call.atr = 50 /\ call.price = 5000 =>
                call.size.num = 2 * call.size.den)

\* a size was cut down to the leverage cap: 100 contracts wanted, 50 allowed
C17_Witness ==
    /\ SizeReturned
    /\ call.equity = 10000
    /\ call.atr = 1
    /\ call.price = 1000
    /\ call.size.num = 50 * call.size.den

CanOpenReturned == call.op = "can_open" /\ call.done

\* the six conditions of C18, in the order the claim lists them
OpenConditions(c) ==
    << c.direction # "FLAT",
       c.trend_strength.num >= MinTrendStrength * c.trend_strength.den,
       /\ MinVolatilityRatioNum * c.volatility_ratio.den
              <= c.volatility_ratio.num * MinVolatilityRatioDen
       /\ c.volatility_ratio.num * MaxVolatilityRatioDen
              <= MaxVolatilityRatioNum * c.volatility_ratio.den,
       ~(c.current_position.size > 0 /\ c.current_position.side = c.direction),
       c.current_position.size * c.close * ContractMultiplier * MaxPositionRatioDen
              < c.equity * MaxPositionRatioNum * Unit,
       c.equity > 0 >>

\* C18: can_open returns true exactly when the direction is not FLAT,
\* trend_strength >= min_trend_strength, volatility_ratio lies in
\* [min_volatility_ratio, max_volatility_ratio] bounds included, the
\* current position is not an open one of the same direction, the existing
\* notional is strictly below equity*max_position_ratio, and equity > 0.
C18_CanOpen ==
    CanOpenReturned =>
        (call.ok <=> \A i \in 1..6 : OpenConditions(call)[i])

\* a call rejected for the exposure cap alone: the notional equals the cap
C18_Witness ==
    /\ CanOpenReturned
    /\ ~call.ok
    /\ \A i \in {1, 2, 3, 4, 6} : OpenConditions(call)[i]
    /\ ~OpenConditions(call)[5]
    /\ call.current_position.size * call.close * ContractMultiplier
            * MaxPositionRatioDen = call.equity * MaxPositionRatioNum * Unit
    /\ call.volatility_ratio = Frac(3, 100)
    /\ call.trend_strength = Frac(1, 1)

\* ======================================================================
\* Trend direction and the FLAT tick
\* ======================================================================

\* the tick has determined its trend direction
Decided == tick.synced /\ Evaluated("trend") /\ tpc \in {"submit", "ended"}

\* the direction C19 gives for a snapshot
DirectionAsSpecified(snapshot) ==
    IF snapshot.adx < AdxThreshold \/ snapshot.ema_fast = snapshot.ema_slow
    THEN "FLAT"
    ELSE IF snapshot.ema_fast > snapshot.ema_slow THEN "LONG" ELSE "SHORT"

\* the resynced position is on the wrong side of ema_slow
ExitDue ==
    \/ tick.syncSide = "LONG"
        /\ Val(last_snapshot).close < Val(last_snapshot).ema_slow
    \/ tick.syncSide = "SHORT"
        /\ Val(last_snapshot).close > Val(last_snapshot).ema_slow

\* the original statement of C19: a FLAT tick submits the trend_exit close
\* whenever the exit is due
C19_AsStated ==
    Decided /\ tick.direction = "FLAT" =>
        (ExitDue <=> \E i \in OrderIndexes : tick.orders[i].reason = "trend_exit")

\* C19: the direction is FLAT if adx < adx_threshold or ema_fast = ema_slow,
\* LONG if adx >= adx_threshold and ema_fast > ema_slow, SHORT if
\* adx >= adx_threshold and ema_fast < ema_slow. A FLAT tick submits one
\* reduce-only trend_exit order if and only if a LONG position is open
\* with close < ema_slow or a SHORT one with close > ema_slow, and the
\* position's size floored to the amount precision is > 0; it submits no
\* other order, never an opening one, and changes no trailing stop.
C19_TrendAndFlatTick ==
    Decided =>
        /\ tick.direction = DirectionAsSpecified(Val(last_snapshot))
        /\ (tick.direction = "FLAT" =>
                /\ \A i \in OrderIndexes :
                        /\ i = 1
                        /\ ExitDue
                        /\ tick.orders[i].reason = "trend_exit"
                        /\ tick.orders[i].order.reduce_only
                        /\ tick.orders[i].order.side =
                                (IF tick.syncSide = "LONG" THEN "sell" ELSE "buy")
                        /\ tick.orders[i].order.amount > 0
                /\ (tick.orders = <<>> =>
                        /\ position_state.side = tick.syncSide
                        /\ (ExitDue => close_order(position_state) = None))
                /\ ~Evaluated("trail")
                /\ ~Evaluated("should_open")
                /\ ~Evaluated("opened")
                /\ (position_state.side # "None" =>
                        position_state.stop_loss = prevEnd.stop_loss))

\* with adx at the threshold and ema_fast = ema_slow the tick is FLAT, and
\* it has closed a SHORT position above ema_slow
C19_Witness ==
    /\ Decided
    /\ Val(last_snapshot).adx >= AdxThreshold
    /\ Val(last_snapshot).ema_fast = Val(last_snapshot).ema_slow
    /\ tick.direction = "FLAT"
    /\ tick.syncSide = "SHORT"
    /\ Ordered("trend_exit", "buy", TRUE)
    /\ tpc = "ended"
    /\ position_state = FlatPosition

\* ======================================================================
\* Trailing stop and the tick's direction
\* ======================================================================

\* the position the tick still holds is on the side opposite to the
\* tick's direction
HeldAgainstDirection ==
    /\ Decided
    /\ tick.direction # "FLAT"
    /\ tick.syncSide \notin {"None", tick.direction}
    /\ position_state.side = tick.syncSide

\* C20: the trailing stop is updated, and should_reduce_on_drawdown
\* checked, only for a position that remains open on the side of the tick's
\* direction; a position on the other side (one whose trend_flip close was
\* skipped because its size floors to 0, say) keeps its stop_loss in that
\* tick.
C20_TrailOnlyMatching ==
    HeldAgainstDirection =>
        /\ position_state.stop_loss = prevEnd.stop_loss
        /\ ~Evaluated("trail")
        /\ ~Evaluated("reduce_check")

\* ======================================================================
\* The orders a tick submits
\* ======================================================================

\* the step of the market's amounts, in units (0: the market has no amount
\* precision, any amount is sent as it is)
AmountStep ==
    IF ~market_info.loaded \/ market_info.precision = None THEN 0
    ELSE Unit \div Pow10(Val(market_info.precision))

\* amount is the fraction size floored to the market's amount precision
FlooredTo(amount, size) ==
    /\ amount * size.den <= size.num * Unit
    /\ IF AmountStep = 0
       THEN amount * size.den = size.num * Unit
       ELSE /\ amount % AmountStep = 0
            /\ size.num * Unit < (amount + AmountStep) * size.den

\* C21: every closing order is a market order with reduce_only true, side
\* opposite to the position (sell for LONG, buy for SHORT) and amount the
\* full position size floored to the amount precision, so
\* 0 < amount <= size; every opening order has reduce_only false and amount
\* the computed size floored, so amount <= computed size; no order with
\* amount <= 0 is submitted.
C21_OrderShape ==
    \A i \in OrderIndexes :
        LET o == tick.orders[i] IN
        /\ o.order.order_type = "market"
        /\ o.order.amount > 0
        /\ (o.order.reduce_only =>
                /\ o.reason \in {"trend_exit", "trend_flip", "keltner_break"}
                /\ o.local.side \in {"LONG", "SHORT"}
                /\ o.order.side = (IF o.local.side = "LONG" THEN "sell" ELSE "buy")
                /\ FlooredTo(o.order.amount, Frac(o.local.size, Unit))
                /\ o.order.amount <= o.local.size)
        /\ (~o.order.reduce_only =>
                /\ o.reason = "open"
                /\ o.order.side = (IF tick.direction = "LONG" THEN "buy" ELSE "sell")
                /\ FlooredTo(o.order.amount,
                             compute_position_size(tick.equity,
                                                   Val(last_snapshot).atr,
                                                   Val(last_snapshot).close)))

\* a position of one contract and a half was closed by an order for one
\* contract, and the opening order that followed was accepted
C21_Witness ==
    /\ Len(tick.orders) = 2
    /\ tick.orders[1].order.reduce_only
    /\ tick.orders[1].order.amount < tick.orders[1].local.size
    /\ tick.orders[1].order.amount > 0
    /\ ~tick.orders[2].order.reduce_only
    /\ sub.accepted >= 1
    /\ tpc = "ended"

\* ======================================================================
\* The position recorded by an open
\* ======================================================================

\* the tick has ended on the return of an opening submit
OpenReturned ==
    /\ tpc = "ended"
    /\ sub.reason = "open"
    /\ sub.outcome = "returned"

\* C22: after a successful opening order the local position has size the
\* submitted floored amount, side the direction, entry_price the response's
\* average fill price or, if there is none, the snapshot close, and
\* stop_loss max(entry_price - atr_stop_multiplier*atr, 0) for LONG,
\* entry_price + atr_stop_multiplier*atr for SHORT; a LONG's initial stop is
\* never negative and never above entry, a SHORT's never below entry.
C22_OpenedPosition ==
    OpenReturned =>
        LET snapshot == Val(last_snapshot)
            entry == position_state.entry_price
            stop == Val(position_state.stop_loss)
        IN  /\ Evaluated("opened")
            /\ position_state.size = Val(sub.order).amount
            /\ position_state.size > 0
            /\ position_state.side = tick.direction
            /\ position_state.side \in {"LONG", "SHORT"}
            /\ (sub.oks = 1 /\ sub.response.kind = "dict"
                    /\ sub.response.average # None =>
                    entry = Val(sub.response.average))
            /\ (sub.oks = 0 \/ sub.response.kind = "None"
                    \/ sub.response.average = None =>
                    entry = snapshot.close)
            /\ position_state.stop_loss # None
            /\ (position_state.side = "LONG" =>
                    /\ AtrStopMultiplierDen * stop
                          = Max(AtrStopMultiplierDen * entry
                                  - AtrStopMultiplierNum * snapshot.atr, 0)
                    /\ stop >= 0
                    /\ stop <= entry)
            /\ (position_state.side = "SHORT" =>
                    /\ AtrStopMultiplierDen * stop
                          = AtrStopMultiplierDen * entry
                              + AtrStopMultiplierNum * snapshot.atr
                    /\ stop >= entry)

\* a LONG was opened with a fill so low that its stop is floored at 0
C22_Witness ==
    /\ OpenReturned
    /\ sub.oks = 1
    /\ position_state.side = "LONG"
    /\ position_state.entry_price = 100
    /\ position_state.entry_price # Val(last_snapshot).close
    /\ position_state.stop_loss = Some(0)

\* ======================================================================
\* Retries and the exchange
\* ======================================================================

\* C23: one submit call causes at most one order to be accepted by the
\* exchange, also when an attempt raised after the exchange had taken the
\* order and the retry sent the same request again; so one opening submit
\* adds at most its amount to the exchange position.
C23_RetryIdempotent ==
    /\ sub.accepted <= 1
    /\ (sub.order # None /\ ~Val(sub.order).reduce_only =>
            sub.accepted * Val(sub.order).amount <= Val(sub.order).amount)

\* the last order the tick has handed to submit()
LastOrder == tick.orders[Len(tick.orders)]

\* C24: with max_retries <= 0 submit makes no create_order call and
\* returns an empty response without raising; its caller takes that for a
\* success: _open_position records an open position (entry_price the
\* snapshot close) and _close_position resets the position to flat, though
\* no order was sent.
C24_NoRetriesNoOrder ==
    max_retries <= 0 =>
        /\ sub.calls = 0
        /\ sub.accepted = 0
        /\ sub.outcome # "raised"
        /\ (tpc = "ended" /\ tick.orders # <<>> =>
                /\ tick.outcome = "returned"
                /\ sub.outcome = "returned"
                /\ sub.result = [kind |-> "dict", filled |-> FALSE, average |-> None]
                /\ IF LastOrder.reason = "open"
                   THEN /\ position_state.side = tick.direction
                        /\ position_state.size = LastOrder.order.amount
                        /\ position_state.size > 0
                        /\ position_state.entry_price = Val(last_snapshot).close
                        /\ position_state.stop_loss # None
                   ELSE position_state = FlatPosition)
        /\ \A i \in OrderIndexes :
                i < Len(tick.orders) =>
                    /\ tick.orders[i].reason = "trend_flip"
                    /\ Evaluated("closed")

\* with max_retries = 0 a tick has flipped a SHORT position into a LONG
\* one without one call of create_order
C24_Witness ==
    /\ max_retries = 0
    /\ tpc = "ended"
    /\ Len(tick.orders) = 2
    /\ tick.orders[1].reason = "trend_flip"
    /\ tick.syncSide = "SHORT"
    /\ position_state.side = "LONG"
    /\ position_state.entry_price = Val(last_snapshot).close
    /\ sub.calls = 0

\* ======================================================================
\* stop() and the start of the loop
\* ======================================================================

\* C25: a stop() that arrives after run() has started, while initialize is
\* still in progress, is lost: run() sets the flag after initialize returns,
\* so the loop starts and goes on stepping until a later stop(); only a
\* stop() made once the run() is in its loop leads to shutdown.
C25_StopDuringInitLost ==
    /\ [](\A r \in Runs :
            /\ (shutdownCalls[r] >= 1 => stopSeen[r])
            /\ (stopInInit[r] /\ ~stopSeen[r] /\ InLoop(r) => running))
    /\ [][\A r \in Runs :
            /\ (pc[r] = "init" /\ stopInInit'[r] /\ ~stopInInit[r] =>
                    pc'[r] = "init" /\ ~running')
            /\ (pc[r] = "init" /\ pc'[r] \notin {"init", "failed", "cancelled"} =>
                    /\ pc'[r] = "step"
                    /\ running'
                    /\ stepCalls'[r] = 1)
            /\ (pc[r] = "sleep" /\ ~stopSeen[r]
                    /\ pc'[r] \notin {"sleep", "cancelled"} =>
                    /\ pc'[r] = "step"
                    /\ stepCalls'[r] = stepCalls[r] + 1)]_vars

\* after a stop() made during initialize the run() is in its second step
C25_Witness ==
    \E r \in Runs :
        /\ stopInInit[r]
        /\ ~stopSeen[r]
        /\ pc[r] = "step"
        /\ stepCalls[r] = 2
        /\ running
        /\ shutdownCalls[r] = 0

\* ======================================================================
\* The ends of run() that skip shutdown
\* ======================================================================

\* run() has ended by an exception: CancelledError, or the one initialize
\* raised (a task cancelled before it started counts as ended too)
Propagated(r) == pc[r] \in {"cancelled", "failed"}

\* C26: when the task running run() is cancelled inside step or during the
\* sleep, or when initialize raises, run() ends by propagating the
\* exception and shutdown is never invoked; shutdown runs only when the
\* loop test finds the flag cleared by stop().
C26_NoShutdownOnException ==
    /\ [](\A r \in Runs :
            /\ (pc[r] = "failed" =>
                    stepCalls[r] = 0 /\ initCalls[r] = 1 /\ shutdownCalls[r] = 0)
            /\ (shutdownCalls[r] >= 1 => stopRequested /\ stopSeen[r]))
    /\ [][\A r \in Runs :
            /\ (InLoop(r) /\ pc'[r] = "cancelled" =>
                    shutdownCalls[r] = 0 /\ shutdownCalls'[r] = 0)
            /\ (pc[r] = "init" /\ Propagated(r)' =>
                    shutdownCalls'[r] = 0 /\ stepCalls'[r] = 0)
            /\ (Propagated(r) =>
                    /\ pc'[r] = pc[r]
                    /\ shutdownCalls'[r] = shutdownCalls[r]
                    /\ stepCalls'[r] = stepCalls[r])
            /\ (shutdownCalls'[r] > shutdownCalls[r] =>
                    pc[r] = "sleep" /\ ~running)]_vars

\* a run() was cancelled in its sleep after stop() had been called during
\* that sleep or the step before it: no shutdown
C26_Witness ==
    \E r \in Runs :
        /\ pc[r] = "cancelled"
        /\ sleeps[r] = stepCalls[r]
        /\ stepCalls[r] >= 1
        /\ stopSeen[r]
        /\ shutdownCalls[r] = 0

\* ======================================================================
\* What closes a position
\* ======================================================================

\* the cause C27 gives for a closing order submitted for this reason
CloseCause(o) ==
    LET snapshot == Val(last_snapshot) IN
    IF o.reason = "trend_exit"
    THEN /\ tick.direction = "FLAT"
         /\ IF o.local.side = "LONG" THEN snapshot.close < snapshot.ema_slow
            ELSE snapshot.close > snapshot.ema_slow
    ELSE IF o.reason = "trend_flip"
    THEN /\ tick.direction # "FLAT"
         /\ o.local.side # tick.direction
    ELSE IF o.reason = "keltner_break"
    THEN /\ tick.direction # "FLAT"
         /\ o.local.side = tick.direction
         /\ IF o.local.side = "LONG" THEN snapshot.close < snapshot.keltner_lower
            ELSE snapshot.close > snapshot.keltner_upper
    ELSE FALSE

\* a LONG position found by a LONG tick, with the close under its stop_loss
\* and not under the lower Keltner band
LongUnderStop ==
    /\ Decided
    /\ tick.syncSide = "LONG"
    /\ tick.direction = "LONG"
    /\ position_state.side = "LONG"
    /\ position_state.stop_loss # None
    /\ Val(last_snapshot).close < Val(position_state.stop_loss)
    /\ Val(last_snapshot).close >= Val(last_snapshot).keltner_lower

\* C27: stop_loss is recorded and never enforced: every closing order has
\* one of the causes trend_exit (FLAT direction, close across ema_slow),
\* trend_flip (side differs from the direction) or keltner_break, none of
\* which reads stop_loss; an open LONG whose close is below its stop_loss
\* and not below keltner_lower, in a LONG tick, gets no order and stays
\* open.
C27_StopNotEnforced ==
    /\ \A i \in OrderIndexes :
            tick.orders[i].order.reduce_only => CloseCause(tick.orders[i])
    /\ (LongUnderStop =>
            /\ tpc = "ended"
            /\ tick.outcome = "returned"
            /\ tick.orders = <<>>
            /\ Evaluated("reduce_check")
            /\ position_state.size > 0)
    /\ (tpc = "ended" /\ tick.synced /\ tick.syncSide # "None"
            /\ position_state.side = "None" =>
            /\ \E i \in OrderIndexes : tick.orders[i].order.reduce_only
            /\ Evaluated("closed"))

\* a LONG tick has ended with the close 5000 under the position's stop
C27_Witness ==
    /\ LongUnderStop
    /\ tpc = "ended"
    /\ prevEnd.side = "LONG"
    /\ prevEnd.stop_loss = position_state.stop_loss
    /\ Val(last_snapshot).close = 5000
    /\ Val(position_state.stop_loss) > 5000
    /\ tick.orders = <<>>

\* ======================================================================
\* The trend-strength gate and SHORT entries
\* ======================================================================

\* the close is at least min_trend_strength * atr above ema_slow
StrengthAbove(snapshot) ==
    snapshot.close - snapshot.ema_slow >= MinTrendStrength * snapshot.atr

\* a flat SHORT tick with the close at or under the Donchian low and at or
\* under ema_slow, every gate of can_open but the trend strength passing
ShortBreakBelow ==
    /\ Decided
    /\ tpc = "ended"
    /\ tick.outcome = "returned"
    /\ tick.syncSide = "None"
    /\ tick.direction = "SHORT"
    /\ tick.equity > 0
    /\ LET snapshot == Val(last_snapshot) IN
        /\ snapshot.close <= snapshot.donchian_low
        /\ snapshot.close <= snapshot.ema_slow
        /\ snapshot.atr * MinVolatilityRatioDen
              >= MinVolatilityRatioNum * snapshot.close
        /\ snapshot.atr * MaxVolatilityRatioDen
              <= MaxVolatilityRatioNum * snapshot.close

\* C28: the trend-strength gate is signed: a SHORT opening order is
\* submitted only in a tick whose close is at least min_trend_strength*atr
\* above ema_slow, and no SHORT position is opened in a tick whose close is
\* at or below ema_slow, whatever adx, the EMAs and the Donchian low are.
C28_SignedTrendGate ==
    /\ \A i \in OrderIndexes :
            (~tick.orders[i].order.reduce_only
             /\ tick.orders[i].order.side = "sell") =>
                /\ tick.direction = "SHORT"
                /\ StrengthAbove(Val(last_snapshot))
                /\ Val(last_snapshot).close > Val(last_snapshot).ema_slow
    /\ (Decided /\ Val(last_snapshot).close <= Val(last_snapshot).ema_slow =>
            /\ ~Evaluated("open")
            /\ ~Evaluated("opened")
            /\ (tpc = "ended" /\ tick.direction = "SHORT" =>
                    position_state.side # "SHORT"
                        \/ position_state.side = tick.syncSide))
    /\ (ShortBreakBelow =>
            /\ Evaluated("can_open")
            /\ tick.orders = <<>>
            /\ position_state = FlatPosition)

\* a SHORT breakout at 4700, under ema_slow 4900, was refused by can_open
\* on the trend strength alone
C28_Witness ==
    /\ ShortBreakBelow
    /\ Val(last_snapshot).close = 4700
    /\ Val(last_snapshot).adx >= AdxThreshold
    /\ Evaluated("should_open")
    /\ Evaluated("can_open")
    /\ tick.equity = 10000
    /\ tick.orders = <<>>

\* ======================================================================
\* The close of the opposite position
\* ======================================================================

\* the tick's resync reported an open position on the side opposite to the
\* tick's non-FLAT direction
Mismatched ==
    /\ Decided
    /\ tick.direction # "FLAT"
    /\ tick.syncSide \notin {"None", tick.direction}

\* the size the tick's resync reported
ResyncedSize ==
    Abs(IF tick.reply.contracts # 0 THEN tick.reply.contracts
        ELSE tick.reply.amount)

\* the original statement of C9: in every such tick the position is closed
\* by a reduce-only trend_flip order
C9_AsStated ==
    Mismatched =>
        /\ Len(tick.orders) >= 1
        /\ tick.orders[1].reason = "trend_flip"
        /\ tick.orders[1].order.reduce_only

\* C9: in a tick whose resync reported an open position on the side
\* opposite to the (non-FLAT) direction, if the position's size floored to
\* the amount precision is > 0 the first order of the tick is that
\* position's reduce-only trend_flip close, for the floored size, and the
\* breakout test, canOpen and the opening order are evaluated only after
\* that close has succeeded; if the size floors to 0 the close is skipped:
\* the tick submits no order, evaluates no entry and leaves the position
\* open. No tick submits a closing order after an opening one.
C9_FlipBeforeEntry ==
    /\ \A i \in EventIndexes :
            (tick.events[i] \in {"should_open", "can_open", "open", "opened"}
             /\ tick.syncSide # "None") =>
                \E j \in 1..(i - 1) :
                    /\ tick.events[j] = "closed"
                    /\ \E k \in 1..(j - 1) : tick.events[k] = "trend_flip"
    /\ (Len(tick.orders) >= 1
        /\ tick.direction # "FLAT"
        /\ tick.syncSide \notin {"None", tick.direction}) =>
            /\ tick.orders[1].reason = "trend_flip"
            /\ tick.orders[1].order.reduce_only
            /\ tick.orders[1].order.side =
                    (IF tick.syncSide = "LONG" THEN "sell" ELSE "buy")
    /\ \A i, j \in OrderIndexes :
            i < j => ~(IsOpening(tick.orders[i]) /\ ~IsOpening(tick.orders[j]))
    /\ Mismatched =>
            IF FlooredTo(0, Frac(ResyncedSize, Unit))
            THEN /\ tick.orders = <<>>
                 /\ ~Evaluated("should_open")
                 /\ ~Evaluated("can_open")
                 /\ ~Evaluated("opened")
                 /\ position_state.side = tick.syncSide
                 /\ position_state.size = ResyncedSize
            ELSE /\ Len(tick.orders) >= 1
                 /\ tick.orders[1].reason = "trend_flip"
                 /\ tick.orders[1].order.reduce_only
                 /\ tick.orders[1].order.side =
                        (IF tick.syncSide = "LONG" THEN "sell" ELSE "buy")
                 /\ tick.orders[1].order.amount > 0
                 /\ FlooredTo(tick.orders[1].order.amount,
                              Frac(ResyncedSize, Unit))

\* a LONG position was flipped: closed, then the SHORT entry was submitted
C9_Witness ==
    /\ tick.syncSide = "LONG"
    /\ tick.direction = "SHORT"
    /\ Len(tick.orders) = 2
    /\ tick.orders[1].reason = "trend_flip"
    /\ tick.orders[2].reason = "open"
    /\ tick.orders[2].order.side = "sell"

====
